---- MODULE Spec2Model ----
(***************************************************************************)
(* Contributor identity pipeline of the organization metrics collector:    *)
(* registry population (direct contributors, commit authors, co-author     *)
(* candidates), the resolver update, and the deduplication pass.           *)
(*                                                                         *)
(* A JavaScript string is a sequence of one-character strings.  A missing  *)
(* (undefined) string field is the empty sequence, which JavaScript also   *)
(* treats as falsy.  A Map is a sequence of entries in insertion order.    *)
(***************************************************************************)
EXTENDS Integers, Sequences, FiniteSets, TLC

(* ------------------------------ bounds -------------------------------- *)
\* number of registry upserts attempted in one run
MaxOps == 3
\* length of the raw candidate list handed to the duplicate filter
MaxRaw == 3
\* number of pieces a commit message is written from
MaxLines == 3
\* the requests the API grants at the start of a run
MaxQuota == 8
\* the calls of getAllItems followed
MaxCalls == 2
\* the emails of a resolver batch
MaxEmails == 3
\* the repositories of the organization
MaxRepos == 2

(* ------------------------------ strings ------------------------------- *)
UpperChars == <<"A","B","C","D","E","F","G","H","I","J","K","L","M",
                "N","O","P","Q","R","S","T","U","V","W","X","Y","Z">>
LowerChars == <<"a","b","c","d","e","f","g","h","i","j","k","l","m",
                "n","o","p","q","r","s","t","u","v","w","x","y","z">>
DigitChars == <<"0","1","2","3","4","5","6","7","8","9">>

Range(s) == {s[i] : i \in 1..Len(s)}

\* the lowercase letter of each uppercase letter
LowerOf == [c \in Range(UpperChars) |->
              LowerChars[CHOOSE i \in 1..26 : UpperChars[i] = c]]

ToLowerChar(c) == IF c \in DOMAIN LowerOf THEN LowerOf[c] ELSE c

toLowerCase(s) == [i \in 1..Len(s) |-> ToLowerChar(s[i])]

LowerAlnumChars == Range(LowerChars) \cup Range(DigitChars)

IsLowerAlnum(c) == c \in LowerAlnumChars

\* s.replace(/[^a-z0-9]/g, '')
StripNonAlnum(s) == SelectSeq(s, IsLowerAlnum)

\* String.prototype.trim removes white space and line terminators
IsSpace(c) == c \in {" ", "\n", "\r", "\t"}

RECURSIVE TrimLeft(_)
TrimLeft(s) == IF s # <<>> /\ IsSpace(Head(s)) THEN TrimLeft(Tail(s)) ELSE s

RECURSIVE TrimRight(_)
TrimRight(s) ==
  IF s # <<>> /\ IsSpace(s[Len(s)]) THEN TrimRight(SubSeq(s, 1, Len(s) - 1)) ELSE s

trim(s) == TrimRight(TrimLeft(s))

\* s.includes(sub)
Includes(s, sub) ==
  \E i \in 0..(Len(s) - Len(sub)) : SubSeq(s, i + 1, i + Len(sub)) = sub

\* s.endsWith(sub)
EndsWith(s, sub) ==
  /\ Len(sub) <= Len(s)
  /\ SubSeq(s, Len(s) - Len(sub) + 1, Len(s)) = sub

\* s.split(sep)[0]
SplitFirst(s, sep) ==
  IF \E i \in 1..Len(s) : s[i] = sep
    THEN SubSeq(s, 1, (CHOOSE i \in 1..Len(s) :
                         s[i] = sep /\ \A j \in 1..(i - 1) : s[j] # sep) - 1)
    ELSE s

\* s.split(sep)[1]; the empty sequence stands for undefined
SplitSecond(s, sep) ==
  IF \E i \in 1..Len(s) : s[i] = sep
    THEN SplitFirst(SubSeq(s, (CHOOSE i \in 1..Len(s) :
                         s[i] = sep /\ \A j \in 1..(i - 1) : s[j] # sep) + 1, Len(s)), sep)
    ELSE <<>>

\* `${n}` for a non-negative integer
RECURSIVE NatToStr(_)
NatToStr(n) ==
  IF n < 10 THEN <<DigitChars[n + 1]>>
            ELSE NatToStr(n \div 10) \o <<DigitChars[(n % 10) + 1]>>

ContributorPrefix == <<"c","o","n","t","r","i","b","u","t","o","r","-">>
NoReplySuffix == <<"@","u","s","e","r","s",".","n","o","r","e","p","l","y",".",
                   "g","i","t","h","u","b",".","c","o","m">>

(* ------------------------- regular expressions ------------------------- *)
\* A pattern is a sequence of items.  An item is a run of literal characters,
\* a character class with a repetition (greedy or lazy, possibly a capture
\* group), a word boundary, or an anchor.  A pattern with the i flag is written in lowercase and the
\* character read is lowercased before it is compared.
WhiteSpace == {" ", "\n", "\r", "\t"}
Letters == Range(UpperChars) \cup Range(LowerChars)
Digits == Range(DigitChars)
WordChars == Letters \cup Digits \cup {"_"}
\* [a-zA-Z0-9\-]
HandleChars == Letters \cup Digits \cup {"-"}
\* [a-zA-Z0-9._%+-]
EmailLocalChars == Letters \cup Digits \cup {".", "_", "%", "+", "-"}
\* [a-zA-Z0-9.-]
EmailDomainChars == Letters \cup Digits \cup {".", "-"}

\* max < 0 stands for no upper limit
Cls(neg, chars, min, max, lazy, grp) ==
  [t |-> "set", neg |-> neg, chars |-> chars, min |-> min, max |-> max,
   lazy |-> lazy, grp |-> grp]

One(chars) == Cls(FALSE, chars, 1, 1, FALSE, 0)
\* a run of literal characters
Lit(str) == IF str = <<>> THEN <<>> ELSE <<[t |-> "lit", text |-> str]>>
WordBoundary == [t |-> "wb"]
LineStart == [t |-> "bol"]
LineEnd == [t |-> "eol"]

InClass(it, ci, c) == ((IF ci THEN ToLowerChar(c) ELSE c) \in it.chars) # it.neg

\* the least element of a set of integers that is not empty
Least(ns) == CHOOSE n \in ns : \A m \in ns : n <= m

\* the end of a run: the first position that stops it, or the end of the string
RunEnd(stops, end) == IF stops = {} THEN end ELSE Least(stops)

\* the number of characters from pos on that are in the class of the item
RunLen(it, ci, s, pos) ==
  RunEnd({p \in pos..Len(s) : ~InClass(it, ci, s[p])}, Len(s) + 1) - pos

\* the most repetitions an item can take out of a run
MaxCount(it, run) == IF it.max >= 0 /\ it.max < run THEN it.max ELSE run

IsWordAt(s, pos) == pos >= 1 /\ pos <= Len(s) /\ s[pos] \in WordChars

NoMatch == [ok |-> FALSE]
NoCaptures == <<<<1, 0>>, <<1, 0>>>>

\* the literal text of the item stands at pos
LitAt(it, ci, s, pos) ==
  /\ pos + Len(it.text) - 1 <= Len(s)
  /\ (IF ci THEN toLowerCase(SubSeq(s, pos, pos + Len(it.text) - 1))
            ELSE SubSeq(s, pos, pos + Len(it.text) - 1)) = it.text

\* the captures after item `it` has taken n characters from pos
Captured(it, caps, pos, n) ==
  IF it.grp = 0 THEN caps ELSE [caps EXCEPT ![it.grp] = <<pos, pos + n - 1>>]

\* the backtracking matcher: items k.. of the pattern against s from pos
RECURSIVE MatchAt(_, _, _, _, _, _)
RECURSIVE Quantified(_, _, _, _, _, _, _)
RECURSIVE TryCount(_, _, _, _, _, _, _, _)
RECURSIVE Retry(_, _, _, _, _, _, _, _, _)
MatchAt(re, ci, s, k, pos, caps) ==
  IF k > Len(re) THEN [ok |-> TRUE, end |-> pos, caps |-> caps]
  ELSE CASE re[k].t = "wb" ->
              IF IsWordAt(s, pos - 1) # IsWordAt(s, pos)
                THEN MatchAt(re, ci, s, k + 1, pos, caps) ELSE NoMatch
         [] re[k].t = "bol" ->
              IF pos = 1 THEN MatchAt(re, ci, s, k + 1, pos, caps) ELSE NoMatch
         [] re[k].t = "eol" ->
              IF pos = Len(s) + 1 THEN MatchAt(re, ci, s, k + 1, pos, caps) ELSE NoMatch
         [] re[k].t = "lit" ->
              IF LitAt(re[k], ci, s, pos)
                THEN MatchAt(re, ci, s, k + 1, pos + Len(re[k].text), caps)
                ELSE NoMatch
         [] re[k].t = "set" /\ re[k].min = 1 /\ re[k].max = 1 ->
              IF pos <= Len(s) /\ InClass(re[k], ci, s[pos])
                THEN TryCount(re, ci, s, k, pos, caps, 1, 1) ELSE NoMatch
         [] OTHER ->
              Quantified(re, ci, s, k, pos, caps,
                         MaxCount(re[k], RunLen(re[k], ci, s, pos)))

\* item k can take up to hi characters: the greedy item tries the most first,
\* the lazy one the least
Quantified(re, ci, s, k, pos, caps, hi) ==
  IF hi < re[k].min THEN NoMatch
  ELSE TryCount(re, ci, s, k, pos, caps, IF re[k].lazy THEN re[k].min ELSE hi, hi)

TryCount(re, ci, s, k, pos, caps, n, hi) ==
  Retry(re, ci, s, k, pos, caps, n, hi,
        MatchAt(re, ci, s, k + 1, pos + n, Captured(re[k], caps, pos, n)))

\* r is the match of the rest after item k took n characters
Retry(re, ci, s, k, pos, caps, n, hi, r) ==
  IF r.ok THEN r
  ELSE IF re[k].lazy
         THEN IF n < hi THEN TryCount(re, ci, s, k, pos, caps, n + 1, hi) ELSE NoMatch
         ELSE IF n > re[k].min THEN TryCount(re, ci, s, k, pos, caps, n - 1, hi)
              ELSE NoMatch

Found(start, r) == [ok |-> TRUE, start |-> start, end |-> r.end, caps |-> r.caps]

\* the match at the least of the positions where one starts
LeftMost(attempts, starts) ==
  IF starts = {} THEN NoMatch ELSE Found(Least(starts), attempts[Least(starts)])

FirstMatch(attempts) == LeftMost(attempts, {p \in DOMAIN attempts : attempts[p].ok})

\* RegExp.prototype.exec from position `from`: the leftmost match
Exec(re, ci, s, from) ==
  FirstMatch([p \in from..(Len(s) + 1) |-> MatchAt(re, ci, s, 1, p, NoCaptures)])

\* s.match(re) without the g flag
Match(re, ci, s) == Exec(re, ci, s, 1)

\* re.test(s)
Test(re, ci, s) == Match(re, ci, s).ok

\* [...s.matchAll(re)]
RECURSIVE MatchAll(_, _, _, _)
RECURSIVE MatchesFrom(_, _, _, _)
MatchAll(re, ci, s, from) == MatchesFrom(re, ci, s, Exec(re, ci, s, from))

\* the match r and the matches after it; after an empty match the search
\* moves on by one
MatchesFrom(re, ci, s, r) ==
  IF ~r.ok THEN <<>>
  ELSE <<r>> \o MatchAll(re, ci, s, IF r.end = r.start THEN r.end + 1 ELSE r.end)

\* match[g]
Group(s, r, g) == SubSeq(s, r.caps[g][1], r.caps[g][2])

\* match[0]
Matched(s, r) == SubSeq(s, r.start, r.end - 1)

\* s.indexOf(sub, from), positions counted from 1; 0 when there is none
IndexOf(s, sub, from) ==
  LET found == {p \in from..(Len(s) - Len(sub) + 1) : SubSeq(s, p, p + Len(sub) - 1) = sub}
  IN IF found = {} THEN 0 ELSE Least(found)

\* s.split(c) for a one-character separator
RECURSIVE SplitChar(_, _)
SplitChar(s, c) ==
  LET i == IndexOf(s, <<c>>, 1)
  IN IF i = 0 THEN <<s>>
     ELSE <<SubSeq(s, 1, i - 1)>> \o SplitChar(SubSeq(s, i + 1, Len(s)), c)

\* s.split(re)
RECURSIVE SplitRegex(_, _, _)
RECURSIVE SplitAround(_, _, _, _)
SplitRegex(re, ci, s) == SplitAround(re, ci, s, Exec(re, ci, s, 1))

\* the text before the match r, and the split of the text after it
SplitAround(re, ci, s, r) ==
  IF ~r.ok \/ r.end = r.start THEN <<s>>
  ELSE <<SubSeq(s, 1, r.start - 1)>> \o SplitRegex(re, ci, SubSeq(s, r.end, Len(s)))

\* s.replace(/\r\n/g, with) for a one-character replacement
ReplaceCRLF(s, with) ==
  LET kept == SelectSeq([i \in 1..Len(s) |-> i],
                        LAMBDA i : ~(s[i] = "\r" /\ i < Len(s) /\ s[i + 1] = "\n"))
  IN [k \in 1..Len(kept) |->
        IF s[kept[k]] = "\n" /\ kept[k] > 1 /\ s[kept[k] - 1] = "\r"
          THEN with ELSE s[kept[k]]]

\* s.replace(/\n/g, with)
ReplaceLF(s, with) ==
  [i \in 1..Len(s) |-> IF s[i] = "\n" THEN with ELSE s[i]]

\* parts.join(sep)
RECURSIVE Join(_, _)
Join(parts, sep) ==
  IF parts = <<>> THEN <<>>
  ELSE IF Len(parts) = 1 THEN parts[1]
       ELSE parts[1] \o sep \o Join(Tail(parts), sep)

(* --------------------------- avatar references ------------------------- *)
\* An avatar URL is kept by its kind; the code only tests it for substrings.
\*   "ghuc"      https://avatars.githubusercontent.com/...
\*   "identicon" https://github.com/identicons/<key>.png
\*   "other"     a URL without "github"
\*   "none"      undefined
AvatarIncludesGithub(a) == a \in {"ghuc", "identicon"}
AvatarIncludesGhuc(a) == a = "ghuc"

(* ------------------------------ inputs -------------------------------- *)
\* names of the repositories, in process order
Repos == <<"r1", "r2">>
NumRepos == Len(Repos)

\* contributor.login / commit.author.login; <<>> is a missing login
ApiLogins == { <<>>, <<"A","n","n">>, <<"b","o","b">> }
\* contributor.contributions
Deltas == {1200}

\* co-author candidates returned by extractCoAuthors (email never empty)
CoAuthorCands ==
  { [name |-> <<"A","n","n">>, email |-> <<"a","n","n","@","x">>],
    [name |-> <<>>,            email |-> <<"A","N","N","@","x">>],
    [name |-> <<>>,            email |-> <<"a","n","n","@","y">>],
    [name |-> <<>>,            email |-> <<"@","z">>] }

\* users the lookup service can return
NoUser == [login |-> <<>>, avatar_url |-> "none"]
GhUsers == { [login |-> <<"B","o","b">>, avatar_url |-> "ghuc"],
             [login |-> <<"a","n","n">>, avatar_url |-> "other"] }

(* ------------------------------- state -------------------------------- *)
VARIABLES
  contributorsMap,   \* Map key -> record, as a sequence of entries
  coAuthorEmails,    \* Set of lowercased co-author emails
  pc,                \* position of collectMetrics
  repoIdx,           \* index of the repository being processed
  ops,               \* upserts attempted so far
  applied,           \* sum of the contribution deltas applied so far
  duplicates,        \* match-sets found by the discovery, in order
  dupIdx,            \* index of the match-set the merge loop is at
  mergedLogins,      \* Set of logins absorbed in this pass
  pass,              \* number of the deduplication pass
  preMap,            \* the registry as the first deduplication pass found it
  absorbedLog,       \* the absorptions of this pass, in order
  coauthors,         \* extractCoAuthors: candidates pushed by the heuristic steps
  uniqueCoauthors,   \* extractCoAuthors: the value returned
  last,              \* the step taken last, for inspection
  script,            \* the script revision that runs
  commitMessage,     \* extractCoAuthors: the commit message
  written,           \* the pieces the commit message was written from
  contact,           \* the email and name given to the normalizer
  returned,          \* the handle the normalizer returned
  upstream,          \* the upstream data two process orders are compared on
  processOrder,      \* the order the repositories are processed in
  firstAggregate,    \* the aggregate counts of the run in the first order
  outputDir,         \* the state of the output directory
  snapshotFile,      \* the content of the snapshot file
  historyFile,       \* the content of the history file
  priorFiles,        \* the two files as the run found them
  metrics,           \* the aggregates the run collected
  exitCode,          \* the exit code of the process
  failure,           \* the failure of the surroundings the run met
  remainingRequests, \* the tracked budget of requests
  totalRequests,     \* the number of requests issued
  quota,             \* the requests the API still grants
  requestLog,        \* the requests issued, each with the tracked budget it was issued at
  fetches,           \* the calls of getAllItems under way
  lookups,           \* the batch lookup under way
  allRepos,          \* the repositories of the organization, as listed
  tasks,             \* the processing of each repository, in process order
  processLog,        \* the starts of the processing, in the order they ran
  collected          \* metrics.repositories and the totals of metrics.stats

vars == <<contributorsMap, coAuthorEmails, pc, repoIdx, ops, applied,
          duplicates, dupIdx, mergedLogins, pass, preMap, absorbedLog,
          coauthors, uniqueCoauthors, last, script, commitMessage, written,
          contact, returned, upstream, processOrder, firstAggregate,
          outputDir, snapshotFile, historyFile, priorFiles, metrics, exitCode, failure,
          remainingRequests, totalRequests, quota, requestLog, fetches, lookups,
          allRepos, tasks, processLog, collected>>
extractVars == <<coauthors, uniqueCoauthors>>
dedupVars == <<duplicates, dupIdx, mergedLogins, pass, preMap, absorbedLog>>
messageVars == <<commitMessage, written>>
\* the variables of the registry pipeline, but for pc and last
pipelineVars == <<contributorsMap, coAuthorEmails, repoIdx, ops, applied, dedupVars>>
\* the variables the registry pipeline leaves alone
normalizeVars == <<contact, returned>>
orderVars == <<upstream, processOrder, firstAggregate>>
runVars == <<outputDir, snapshotFile, historyFile, priorFiles, metrics, exitCode, failure>>
budgetVars == <<remainingRequests, totalRequests, quota, requestLog, fetches, lookups>>
batchVars == <<allRepos, tasks, processLog, collected>>
otherVars == <<script, messageVars, normalizeVars, orderVars, runVars, budgetVars, batchVars>>

(* ------------------------------ registry ------------------------------ *)
Keys(m) == {m[i].key : i \in 1..Len(m)}
Has(m, k) == k \in Keys(m)
IndexOfKey(m, k) == CHOOSE i \in 1..Len(m) : m[i].key = k
Get(m, k) == m[IndexOfKey(m, k)]

RECURSIVE SumContributions(_)
SumContributions(m) ==
  IF m = <<>> THEN 0 ELSE Head(m).contributions + SumContributions(Tail(m))

\* record created for a direct contributor or commit author
NewDirect(key, login, avatar) ==
  [key |-> key, login |-> login, email |-> <<>>, avatar_url |-> avatar,
   contributions |-> 0, repositories |-> {}, pending_github_lookup |-> FALSE,
   github_login |-> <<>>, aliases |-> <<>>]

\* variant: a record that exists already is replaced instead of updated
UpsertByLoginOverwrite(m, login, avatar, delta, repo) ==
  LET key == toLowerCase(login)
      m1 == IF Has(m, key) THEN m ELSE Append(m, NewDirect(key, login, avatar))
      i == IndexOfKey(m1, key)
  IN [m1 EXCEPT ![i].contributions = delta,
                ![i].repositories = @ \cup {repo}]

\* the has/set/get/update sequence shared by contributors and commit authors
UpsertByLogin(m, login, avatar, delta, repo) ==
  LET key == toLowerCase(login)
      m1 == IF Has(m, key) THEN m ELSE Append(m, NewDirect(key, login, avatar))
      i == IndexOfKey(m1, key)
  IN [m1 EXCEPT ![i].contributions = @ + delta,
                ![i].repositories = @ \cup {repo}]

\* the comparison with the stored email as it was written
EmailMatchesExact(m, normalizedEmail) ==
  {i \in 1..Len(m) : m[i].email # <<>> /\ m[i].email = normalizedEmail}

\* first entry whose stored email equals the candidate's, case-insensitively
EmailMatches(m, normalizedEmail) ==
  {i \in 1..Len(m) : m[i].email # <<>> /\ toLowerCase(m[i].email) = normalizedEmail}

RECURSIVE FreeUsername(_, _, _)
FreeUsername(m, username, counter) ==
  LET candidate == username \o <<"-">> \o NatToStr(counter)
  IN IF Has(m, candidate) THEN FreeUsername(m, username, counter + 1) ELSE candidate

\* variant: no contributor-N fallback for a username shorter than 2
BaseUsernameNoFallback(m, name, email) ==
  LET raw == IF name = <<>> \/ trim(name) = <<>> THEN SplitFirst(email, "@") ELSE name
  IN StripNonAlnum(toLowerCase(trim(raw)))

\* the username derived from the candidate, before it is made unique
BaseUsername(m, name, email) ==
  LET raw == IF name = <<>> \/ trim(name) = <<>> THEN SplitFirst(email, "@") ELSE name
      cleaned == StripNonAlnum(toLowerCase(trim(raw)))
  IN IF Len(cleaned) < 2
       THEN ContributorPrefix \o NatToStr(Len(m) + 1)
       ELSE cleaned

\* finalUsername: the username, suffixed -1, -2, ... while it is a key
GeneratedUsername(m, name, email) ==
  LET username == BaseUsername(m, name, email)
  IN IF Has(m, username) THEN FreeUsername(m, username, 1) ELSE username

NewCoAuthor(key, name, email, repo) ==
  [key |-> key,
   login |-> IF name # <<>> THEN name ELSE SplitFirst(email, "@"),
   email |-> email, avatar_url |-> "identicon",
   contributions |-> 1, repositories |-> {repo}, pending_github_lookup |-> TRUE,
   github_login |-> <<>>, aliases |-> <<>>]

\* variant: a candidate whose username is already a key is merged into it
UpsertCoAuthorByHandle(m, name, email, repo) ==
  LET hits == EmailMatches(m, toLowerCase(email))
      username == BaseUsername(m, name, email)
  IN IF hits # {}
       THEN LET i == CHOOSE j \in hits : \A h \in hits : j <= h
            IN [m EXCEPT ![i].contributions = @ + 1,
                         ![i].repositories = @ \cup {repo}]
       ELSE IF Has(m, username)
              THEN [m EXCEPT ![IndexOfKey(m, username)].contributions = @ + 1,
                             ![IndexOfKey(m, username)].repositories = @ \cup {repo}]
              ELSE Append(m, NewCoAuthor(username, name, email, repo))

UpsertCoAuthor(m, name, email, repo) ==
  LET hits == EmailMatches(m, toLowerCase(email))
  IN IF hits # {}
       THEN LET i == CHOOSE j \in hits : \A h \in hits : j <= h
            IN [m EXCEPT ![i].contributions = @ + 1,
                         ![i].repositories = @ \cup {repo}]
       ELSE Append(m, NewCoAuthor(GeneratedUsername(m, name, email), name, email, repo))

(* ------------------------------ resolver ------------------------------ *)
\* results lookupUserByEmail can return for one email (NoUser stands for null)
LookupOutcomes(email) ==
  LET username == IF Includes(email, <<"+">>)
                    THEN SplitFirst(SplitSecond(email, "+"), "@")
                    ELSE SplitFirst(email, "@")
      byNoReply == IF EndsWith(email, NoReplySuffix)
                     THEN {[login |-> username, avatar_url |-> a] : a \in {"ghuc", "other"}}
                     ELSE {}
  IN {NoUser} \cup byNoReply \cup GhUsers

\* the mappings batchLookupUsersByEmail can return for a set of emails
LookupResults(emails) ==
  {f \in [emails -> UNION {LookupOutcomes(e) : e \in emails}] :
     \A e \in emails : f[e] \in LookupOutcomes(e)}

MapGet(f, e) == IF e \in DOMAIN f THEN f[e] ELSE NoUser

\* the resolver update that clears the pending flag of every record with an
\* email, found or not
ResolverUpdateAll(m, emailToGitHubUser) ==
  [i \in 1..Len(m) |->
     IF m[i].email # <<>> THEN [m[i] EXCEPT !.pending_github_lookup = FALSE] ELSE m[i]]

\* the loop that upgrades pending records from the lookup results
ResolverUpdate(m, emailToGitHubUser) ==
  [i \in 1..Len(m) |->
     LET data == m[i]
         githubUser == MapGet(emailToGitHubUser, toLowerCase(data.email))
     IN IF data.email # <<>> /\ data.pending_github_lookup /\ githubUser # NoUser
          THEN [data EXCEPT !.github_login = githubUser.login,
                            !.avatar_url = githubUser.avatar_url,
                            !.pending_github_lookup = FALSE]
          ELSE data]

(* ------------------------- match-set discovery ------------------------- *)
RECURSIVE DistinctInOrder(_)
DistinctInOrder(s) ==
  IF s = <<>> THEN <<>>
  ELSE LET r == DistinctInOrder(SubSeq(s, 1, Len(s) - 1))
           x == s[Len(s)]
       IN IF x \in Range(r) THEN r ELSE Append(r, x)

\* a Map from k to the list of logins pushed under k, in insertion order
GroupsOf(pairs) ==
  LET ks == DistinctInOrder([i \in 1..Len(pairs) |-> pairs[i].k])
      LoginsOf(k) == LET sel == SelectSeq(pairs, LAMBDA p : p.k = k)
                     IN [i \in 1..Len(sel) |-> sel[i].login]
  IN [i \in 1..Len(ks) |-> [key |-> ks[i], logins |-> LoginsOf(ks[i])]]

\* the groups with more than one login, tagged with the match type
DuplicateSets(type, groups) ==
  LET sel == SelectSeq(groups, LAMBDA g : Len(g.logins) > 1)
  IN [i \in 1..Len(sel) |-> [type |-> type, key |-> sel[i].key, logins |-> sel[i].logins]]

EmailPairs(m) ==
  LET sel == SelectSeq(m, LAMBDA e : e.email # <<>>)
  IN [i \in 1..Len(sel) |-> [k |-> toLowerCase(sel[i].email), login |-> sel[i].key]]

GithubPairs(m) ==
  LET sel == SelectSeq(m, LAMBDA e : e.github_login # <<>>)
  IN [i \in 1..Len(sel) |-> [k |-> toLowerCase(sel[i].github_login), login |-> sel[i].key]]

normalizeName(name) == trim(StripNonAlnum(toLowerCase(name)))

possibleNames(e) ==
  <<normalizeName(e.key)>>
  \o (IF e.login # <<>> THEN <<normalizeName(e.login)>> ELSE <<>>)
  \o (IF e.github_login # <<>> THEN <<normalizeName(e.github_login)>> ELSE <<>>)
  \o (IF e.email # <<>> /\ Includes(e.email, <<"@">>)
        THEN <<normalizeName(SplitFirst(e.email, "@"))>> ELSE <<>>)

RECURSIVE NamePairs(_)
NamePairs(m) ==
  IF m = <<>> THEN <<>>
  ELSE LET e == Head(m)
           names == SelectSeq(DistinctInOrder(possibleNames(e)), LAMBDA n : Len(n) > 2)
       IN [i \in 1..Len(names) |-> [k |-> names[i], login |-> e.key]] \o NamePairs(Tail(m))

alreadyFound(dups, logins) ==
  \E i \in 1..Len(dups) :
     /\ Len(dups[i].logins) = Len(logins)
     /\ Range(dups[i].logins) \subseteq Range(logins)

RECURSIVE AddSimilarNames(_, _)
AddSimilarNames(dups, sets) ==
  IF sets = <<>> THEN dups
  ELSE AddSimilarNames(
         IF alreadyFound(dups, Head(sets).logins) THEN dups ELSE Append(dups, Head(sets)),
         Tail(sets))

FindDuplicates(m) ==
  AddSimilarNames(
    DuplicateSets("email", GroupsOf(EmailPairs(m)))
      \o DuplicateSets("github_login", GroupsOf(GithubPairs(m))),
    DuplicateSets("similar_name", GroupsOf(NamePairs(m))))

(* ------------------------------- merging ------------------------------ *)
\* ten times the score of the code, to stay in the integers
LoginScore(data) ==
    data.contributions
  + (IF data.github_login # <<>> THEN 1000 ELSE 0)
  + (IF data.github_login # <<>> /\ toLowerCase(data.key) = toLowerCase(data.github_login)
       THEN 500 ELSE 0)
  + (IF AvatarIncludesGithub(data.avatar_url) THEN 300 ELSE 0)
  + (IF ~Includes(data.key, ContributorPrefix) THEN 200 ELSE 0)
  + (IF ~Includes(data.key, <<" ">>) THEN 50 ELSE 0)

\* variant: an element is placed before the elements of equal score
RECURSIVE InsertDescTiesLast(_, _)
InsertDescTiesLast(sorted, x) ==
  IF sorted = <<>> THEN <<x>>
  ELSE IF Head(sorted).score > x.score
         THEN <<Head(sorted)>> \o InsertDescTiesLast(Tail(sorted), x)
         ELSE <<x>> \o sorted

\* Array.prototype.sort with (a, b) => b.score - a.score: stable, descending
RECURSIVE InsertDesc(_, _)
InsertDesc(sorted, x) ==
  IF sorted = <<>> THEN <<x>>
  ELSE IF Head(sorted).score >= x.score
         THEN <<Head(sorted)>> \o InsertDesc(Tail(sorted), x)
         ELSE <<x>> \o sorted

RECURSIVE SortDesc(_)
SortDesc(s) ==
  IF s = <<>> THEN <<>>
  ELSE InsertDesc(SortDesc(SubSeq(s, 1, Len(s) - 1)), s[Len(s)])

validLoginsOf(m, merged, logins) ==
  SelectSeq(logins, LAMBDA l : Has(m, l) /\ l \notin merged)

loginScoresOf(m, validLogins) ==
  [i \in 1..Len(validLogins) |->
     [login |-> validLogins[i], score |-> LoginScore(Get(m, validLogins[i]))]]

PrimaryLogin(m, validLogins) == SortDesc(loginScoresOf(m, validLogins))[1].login

DeleteKey(m, k) == SelectSeq(m, LAMBDA e : e.key # k)

\* variant: the alias records the primary's count and no repositories are merged
AbsorbWrongAlias(m, primaryLogin, login, type) ==
  LET p == IndexOfKey(m, primaryLogin)
      data == Get(m, login)
      takeGithub == data.github_login # <<>> /\ m[p].github_login = <<>>
      primaryData == [m[p] EXCEPT
                   !.aliases = Append(@, [login |-> login, type |-> type,
                                          contributions |-> m[p].contributions,
                                          repositories |-> data.repositories]),
                   !.contributions = @ + data.contributions,
                   !.github_login = IF takeGithub THEN data.github_login ELSE @,
                   !.avatar_url = IF takeGithub THEN data.avatar_url ELSE @]
  IN [m EXCEPT ![p] = primaryData]

\* the body of the loop over validLogins for one login other than the primary
Absorb(m, primaryLogin, login, type) ==
  LET p == IndexOfKey(m, primaryLogin)
      data == Get(m, login)
      takeGithub == data.github_login # <<>> /\ m[p].github_login = <<>>
      folded == [m[p] EXCEPT
                   !.aliases = Append(@, [login |-> login, type |-> type,
                                          contributions |-> data.contributions,
                                          repositories |-> data.repositories]),
                   !.contributions = @ + data.contributions,
                   !.repositories = @ \cup data.repositories,
                   !.github_login = IF takeGithub THEN data.github_login ELSE @,
                   !.avatar_url = IF takeGithub THEN data.avatar_url ELSE @]
      primaryData == [folded EXCEPT
                   !.avatar_url = IF AvatarIncludesGhuc(data.avatar_url)
                                     /\ ~AvatarIncludesGhuc(folded.avatar_url)
                                    THEN data.avatar_url ELSE @]
  IN [m EXCEPT ![p] = primaryData]

\* variant: the login is neither marked nor deleted
MarkMergedNot(st, login) == st

\* variant: the login is marked but stays in the registry
MarkMergedKeep(st, login) ==
  [map |-> st.map, merged |-> st.merged \cup {login}]

\* the end of the loop body: the login is marked as merged and deleted
MarkMerged(st, login) ==
  [map |-> DeleteKey(st.map, login), merged |-> st.merged \cup {login}]

\* the loop over validLogins, on the pair of contributorsMap and mergedLogins
RECURSIVE AbsorbAll(_, _, _, _)
AbsorbAll(st, primaryLogin, logins, type) ==
  IF logins = <<>> THEN st
  ELSE IF Head(logins) = primaryLogin
         THEN AbsorbAll(st, primaryLogin, Tail(logins), type)
         ELSE AbsorbAll(
                MarkMerged([st EXCEPT !.map = Absorb(st.map, primaryLogin, Head(logins), type)],
                           Head(logins)),
                primaryLogin, Tail(logins), type)

\* TRUE when the merge loop passes over the match-set without merging
SkipsSet(m, merged, logins) ==
  \/ \A i \in 1..Len(logins) : logins[i] \in merged \/ ~Has(m, logins[i])
  \/ Len(validLoginsOf(m, merged, logins)) <= 1

(* ------------------------------ actions ------------------------------- *)
\* the registry pipeline before its first step
PipelineAtStart ==
  /\ contributorsMap = <<>>
  /\ coAuthorEmails = {}
  /\ repoIdx = 1
  /\ ops = 0
  /\ applied = 0
  /\ duplicates = <<>>
  /\ dupIdx = 1
  /\ mergedLogins = {}
  /\ pass = 1
  /\ preMap = <<>>
  /\ absorbedLog = <<>>
  /\ last = [op |-> "init"]

\* no commit message is being analysed
NoMessage == commitMessage = <<>> /\ written = <<>>

\* no second order is being compared
NoOrder == upstream = <<>> /\ processOrder = <<>> /\ firstAggregate = <<>>

\* no candidate is being normalized
NoCandidate == contact = <<>> /\ returned = <<>>

\* no run end is being followed
NoRun == outputDir = <<>> /\ snapshotFile = <<>> /\ historyFile = <<>> /\ priorFiles = <<>> /\ metrics = <<>> /\ exitCode = <<>> /\ failure = <<>>

\* no request budget is being followed
NoBudget == remainingRequests = <<>> /\ totalRequests = <<>> /\ quota = <<>> /\ requestLog = <<>> /\ fetches = <<>> /\ lookups = <<>>

\* no batch of repositories is being followed
NoBatch == allRepos = <<>> /\ tasks = <<>> /\ processLog = <<>> /\ collected = <<>>

Init ==
  /\ PipelineAtStart
  /\ pc = "contributors"
  /\ script = "enhanced"
  /\ coauthors = <<>>
  /\ uniqueCoauthors = <<>>
  /\ NoMessage
  /\ NoCandidate
  /\ NoOrder
  /\ NoRun
  /\ NoBudget
  /\ NoBatch

\* one iteration of the loop over the repository's contributor listing
DirectUpsert ==
  /\ pc = "contributors" /\ ops < MaxOps
  /\ \E login \in ApiLogins, delta \in Deltas :
       /\ IF login = <<>>
            THEN /\ UNCHANGED <<contributorsMap, applied>>
                 /\ last' = [op |-> "direct_skipped", before |-> contributorsMap]
            ELSE /\ contributorsMap' =
                      UpsertByLogin(contributorsMap, login, "ghuc", delta, Repos[repoIdx])
                 /\ applied' = applied + delta
                 /\ last' = [op |-> "direct", key |-> toLowerCase(login)]
  /\ ops' = ops + 1
  /\ UNCHANGED <<coAuthorEmails, pc, repoIdx, dedupVars, extractVars, otherVars>>

\* the contributor listing is exhausted; the commit listing is fetched
FetchCommits ==
  /\ pc = "contributors"
  /\ pc' = "commits"
  /\ last' = [op |-> "fetch_commits"]
  /\ UNCHANGED <<contributorsMap, coAuthorEmails, repoIdx, ops, applied, dedupVars, extractVars, otherVars>>

\* the commit-author part of one iteration of the loop over the commits
AuthorUpsert ==
  /\ pc = "commits" /\ ops < MaxOps
  /\ \E login \in ApiLogins :
       /\ IF login = <<>>
            THEN /\ UNCHANGED <<contributorsMap, applied>>
                 /\ last' = [op |-> "author_skipped", before |-> contributorsMap]
            ELSE /\ contributorsMap' =
                      UpsertByLogin(contributorsMap, login, "ghuc", 1, Repos[repoIdx])
                 /\ applied' = applied + 1
                 /\ last' = [op |-> "author", key |-> toLowerCase(login)]
  /\ ops' = ops + 1
  /\ UNCHANGED <<coAuthorEmails, pc, repoIdx, dedupVars, extractVars, otherVars>>

\* one iteration of the loop over the co-authors of a commit
CoAuthorUpsert ==
  /\ pc = "commits" /\ ops < MaxOps
  /\ \E c \in CoAuthorCands :
       /\ coAuthorEmails' =
            IF Includes(c.email, <<"@">>)
              THEN coAuthorEmails \cup {toLowerCase(c.email)}
              ELSE coAuthorEmails
       /\ contributorsMap' = UpsertCoAuthor(contributorsMap, c.name, c.email, Repos[repoIdx])
       /\ last' = [op |-> "coauthor", name |-> c.name, email |-> c.email,
                   repo |-> Repos[repoIdx], before |-> contributorsMap]
  /\ applied' = applied + 1
  /\ ops' = ops + 1
  /\ UNCHANGED <<pc, repoIdx, dedupVars, extractVars, otherVars>>

\* the repository is finished; the loop moves to the next one
NextRepo ==
  /\ pc = "commits"
  /\ IF repoIdx < NumRepos
       THEN /\ repoIdx' = repoIdx + 1
            /\ pc' = "contributors"
       ELSE /\ repoIdx' = repoIdx
            /\ pc' = "lookup"
  /\ last' = [op |-> "next_repo"]
  /\ UNCHANGED <<contributorsMap, coAuthorEmails, ops, applied, dedupVars, extractVars, otherVars>>

\* the batch lookup returns and the pending records are upgraded
ResolveEmails ==
  /\ pc = "lookup"
  /\ \E emailToGitHubUser \in LookupResults(coAuthorEmails) :
       /\ contributorsMap' = ResolverUpdate(contributorsMap, emailToGitHubUser)
       /\ last' = [op |-> "resolve", found |-> emailToGitHubUser,
                   before |-> contributorsMap]
  /\ pc' = "discover"
  /\ UNCHANGED <<coAuthorEmails, repoIdx, ops, applied, dedupVars, extractVars, otherVars>>

\* the three discovery steps build the list of match-sets
Discover ==
  /\ pc = "discover"
  /\ duplicates' = FindDuplicates(contributorsMap)
  /\ dupIdx' = 1
  /\ mergedLogins' = {}
  /\ absorbedLog' = <<>>
  /\ preMap' = IF pass = 1 THEN contributorsMap ELSE preMap
  /\ pc' = "merge"
  /\ last' = [op |-> "discover"]
  /\ UNCHANGED <<contributorsMap, coAuthorEmails, repoIdx, ops, applied, pass, extractVars, otherVars>>

\* one iteration of the loop over the match-sets
MergeSet ==
  /\ pc = "merge" /\ dupIdx <= Len(duplicates)
  /\ LET dup == duplicates[dupIdx]
         validLogins == validLoginsOf(contributorsMap, mergedLogins, dup.logins)
     IN IF SkipsSet(contributorsMap, mergedLogins, dup.logins)
          THEN /\ UNCHANGED <<contributorsMap, mergedLogins, absorbedLog>>
               /\ last' = [op |-> "skip", logins |-> dup.logins]
          ELSE LET primaryLogin == PrimaryLogin(contributorsMap, validLogins)
                   st == AbsorbAll([map |-> contributorsMap, merged |-> mergedLogins],
                                   primaryLogin, validLogins, dup.type)
                   others == SelectSeq(validLogins, LAMBDA l : l # primaryLogin)
               IN /\ contributorsMap' = st.map
                  /\ mergedLogins' = st.merged
                  /\ absorbedLog' = absorbedLog \o
                       [i \in 1..Len(others) |-> [login |-> others[i], into |-> primaryLogin]]
                  /\ last' = [op |-> "merge", type |-> dup.type, logins |-> dup.logins,
                              primary |-> primaryLogin, before |-> contributorsMap]
  /\ dupIdx' = dupIdx + 1
  /\ UNCHANGED <<coAuthorEmails, pc, repoIdx, ops, applied, duplicates, pass, preMap,
                 extractVars, otherVars>>

\* the loop over the match-sets is exhausted
DedupDone ==
  /\ pc = "merge" /\ dupIdx > Len(duplicates)
  /\ pc' = "done"
  /\ last' = [op |-> "dedup_done"]
  /\ UNCHANGED <<contributorsMap, coAuthorEmails, repoIdx, ops, applied, dedupVars, extractVars, otherVars>>

\* the deduplication pass is run once more on its own result
SecondPass ==
  /\ pc = "done" /\ pass = 1
  /\ pass' = 2
  /\ pc' = "discover"
  /\ last' = [op |-> "second_pass"]
  /\ UNCHANGED <<contributorsMap, coAuthorEmails, repoIdx, ops, applied,
                 duplicates, dupIdx, mergedLogins, preMap, absorbedLog, extractVars,
                 otherVars>>

Next ==
  \/ DirectUpsert
  \/ FetchCommits
  \/ AuthorUpsert
  \/ CoAuthorUpsert
  \/ NextRepo
  \/ ResolveEmails
  \/ Discover
  \/ MergeSet
  \/ DedupDone

Spec == Init /\ [][Next]_vars

NextTwice == Next \/ SecondPass

SpecTwice == Init /\ [][NextTwice]_vars

(* ------------------- extractCoAuthors: the heuristics ------------------- *)
RECURSIVE Flatten(_)
Flatten(ss) == IF ss = <<>> THEN <<>> ELSE Head(ss) \o Flatten(Tail(ss))

Marker == <<"C","o","-","A","u","t","h","o","r","e","d","-","B","y",":">>
MarkerSpellings == { <<"C","o","-","A","u","t","h","o","r","e","d","-","B","y",":">>, <<"C","o","-","a","u","t","h","o","r","e","d","-","b","y",":">>,
                     <<"c","o","-","a","u","t","h","o","r","e","d","-","b","y",":">>, <<"C","O","-","A","U","T","H","O","R","E","D","-","B","Y",":">> }

\* /Co-[aA]uthored-[bB]y:/i
MarkerPattern == Lit(<<"c","o","-","a","u","t","h","o","r","e","d","-","b","y",":">>)
\* /<([^>]+)>/
EmailBracket == Lit(<<"<">>) \o <<Cls(TRUE, {">"}, 1, -1, FALSE, 1)>> \o Lit(<<">">>)
\* /Co-[aA]uthored-[bB]y:([^<]+)</i
NameToBracket ==
  Lit(<<"c","o","-","a","u","t","h","o","r","e","d","-","b","y",":">>) \o <<Cls(TRUE, {"<"}, 1, -1, FALSE, 1)>> \o Lit(<<"<">>)
\* /Co-Authored-By:\s*([^<]+)</i
SectionName ==
  Lit(<<"c","o","-","a","u","t","h","o","r","e","d","-","b","y",":">>)
    \o <<Cls(FALSE, WhiteSpace, 0, -1, FALSE, 0), Cls(TRUE, {"<"}, 1, -1, FALSE, 1)>>
    \o Lit(<<"<">>)
\* /^(.*?)</
PartName == <<LineStart, Cls(TRUE, {"\n", "\r"}, 0, -1, TRUE, 1)>> \o Lit(<<"<">>)
\* [\s\n]+([^<\n]+?)[\s\n]*<([^>\n]+)>
NameEmailTail ==
  <<Cls(FALSE, WhiteSpace, 1, -1, FALSE, 0),
    Cls(TRUE, {"<", "\n"}, 1, -1, TRUE, 1),
    Cls(FALSE, WhiteSpace, 0, -1, FALSE, 0)>>
  \o Lit(<<"<">>) \o <<Cls(TRUE, {">", "\n"}, 1, -1, FALSE, 2)>> \o Lit(<<">">>)
\* [\-\s] and [\-\s]?
DashOrSpace == One({"-"} \cup WhiteSpace)
MaybeDashOrSpace == Cls(FALSE, {"-"} \cup WhiteSpace, 0, 1, FALSE, 0)

\* /co[\-\s]authored[\-\s]by:[\s\n]+([^<\n]+?)[\s\n]*<([^>\n]+)>/gi
StandardPattern ==
  Lit(<<"c","o">>) \o <<DashOrSpace>> \o Lit(<<"a","u","t","h","o","r","e","d">>) \o <<DashOrSpace>> \o Lit(<<"b","y",":">>)
    \o NameEmailTail
\* /co-author:[\s\n]+([^<\n]+?)[\s\n]*<([^>\n]+)>/gi
AlternatePattern == Lit(<<"c","o","-","a","u","t","h","o","r",":">>) \o NameEmailTail
\* /coauthored[\-\s]?by:[\s\n]+([^<\n]+?)[\s\n]*<([^>\n]+)>/gi
NoSpacesPattern ==
  Lit(<<"c","o","a","u","t","h","o","r","e","d">>) \o <<MaybeDashOrSpace>> \o Lit(<<"b","y",":">>) \o NameEmailTail
\* /co[\-\s]?auth?ored[\-\s]?by:[\s\n]+([^<\n]+?)[\s\n]*<([^>\n]+)>/gi
TyposPattern ==
  Lit(<<"c","o">>) \o <<MaybeDashOrSpace>> \o Lit(<<"a","u","t">>)
    \o <<Cls(FALSE, {"h"}, 0, 1, FALSE, 0)>> \o Lit(<<"o","r","e","d">>)
    \o <<MaybeDashOrSpace>> \o Lit(<<"b","y",":">>) \o NameEmailTail
\* /co[\-\s]authored[\-\s]by:[\s\n]*<([^>\n]+)>/gi
JustEmailPattern ==
  Lit(<<"c","o">>) \o <<DashOrSpace>> \o Lit(<<"a","u","t","h","o","r","e","d">>) \o <<DashOrSpace>> \o Lit(<<"b","y",":">>)
    \o <<Cls(FALSE, WhiteSpace, 0, -1, FALSE, 0)>>
    \o Lit(<<"<">>) \o <<Cls(TRUE, {">", "\n"}, 1, -1, FALSE, 1)>> \o Lit(<<">">>)
\* /credits:[\s\n]+([^<\n]+?)[\s\n]*<([^>\n]+)>/gi
CreditsPattern == Lit(<<"c","r","e","d","i","t","s",":">>) \o NameEmailTail
\* /with:[\s\n]+([^<\n]+?)[\s\n]*<([^>\n]+)>/gi
WithPattern == Lit(<<"w","i","t","h",":">>) \o NameEmailTail
\* /signed[\-\s]off[\-\s]by:[\s\n]+([^<\n]+?)[\s\n]*<([^>\n]+)>/gi
SignedOffPattern ==
  Lit(<<"s","i","g","n","e","d">>) \o <<DashOrSpace>> \o Lit(<<"o","f","f">>) \o <<DashOrSpace>> \o Lit(<<"b","y",":">>)
    \o NameEmailTail
\* /author:[\s\n]+([^<\n]+?)[\s\n]*<([^>\n]+)>/gi
AuthorPattern == Lit(<<"a","u","t","h","o","r",":">>) \o NameEmailTail

\* /Co-[aA]uthored-[bB]y:[^<]*<([^>]+)>/g
multiCoAuthorPattern ==
  Lit(<<"C","o","-">>) \o <<One({"a", "A"})>> \o Lit(<<"u","t","h","o","r","e","d","-">>) \o <<One({"b", "B"})>>
    \o Lit(<<"y",":">>) \o <<Cls(TRUE, {"<"}, 0, -1, FALSE, 0)>>
    \o Lit(<<"<">>) \o <<Cls(TRUE, {">"}, 1, -1, FALSE, 1)>> \o Lit(<<">">>)
\* /@([a-zA-Z0-9\-]+)/g
usernamePattern == Lit(<<"@">>) \o <<Cls(FALSE, HandleChars, 1, -1, FALSE, 1)>>
\* /\b([a-zA-Z0-9._%+-]+@[a-zA-Z0-9.-]+\.[a-zA-Z]{2,})\b/g
emailPattern ==
  <<WordBoundary, Cls(FALSE, EmailLocalChars, 1, -1, FALSE, 0)>> \o Lit(<<"@">>)
    \o <<Cls(FALSE, EmailDomainChars, 1, -1, FALSE, 0)>> \o Lit(<<".">>)
    \o <<Cls(FALSE, Letters, 2, -1, FALSE, 0), WordBoundary>>
\* /Co-Authored-By:[^<]+<[^>]+>/gi
complexPattern ==
  Lit(<<"c","o","-","a","u","t","h","o","r","e","d","-","b","y",":">>) \o <<Cls(TRUE, {"<"}, 1, -1, FALSE, 0)>>
    \o Lit(<<"<">>) \o <<Cls(TRUE, {">"}, 1, -1, FALSE, 0)>> \o Lit(<<">">>)

\* the name and email taken from a text that holds a bracketed email
BracketCandidate(text, namePattern, ci) ==
  LET emailMatch == Match(EmailBracket, FALSE, text)
      nameMatch == Match(namePattern, ci, text)
  IN IF emailMatch.ok
       THEN <<[name |-> IF nameMatch.ok THEN trim(Group(text, nameMatch, 1)) ELSE <<>>,
               email |-> trim(Group(text, emailMatch, 1))]>>
       ELSE <<>>

\* STEP 1: the lines that hold a marker
LineScan(message) ==
  IF \E m \in MarkerSpellings : Includes(message, m)
    THEN LET lines == SplitChar(ReplaceCRLF(message, "\n"), "\n")
         IN Flatten([i \in 1..Len(lines) |->
                       LET line == trim(lines[i])
                       IN IF Test(MarkerPattern, TRUE, line)
                            THEN BracketCandidate(line, NameToBracket, TRUE)
                            ELSE <<>>])
    ELSE <<>>

\* positions.push(pos) while rawMessage.indexOf(marker, pos + 1) finds one
RECURSIVE MarkerPositions(_, _)
MarkerPositions(rawMessage, from) ==
  LET pos == IndexOf(rawMessage, Marker, from)
  IN IF pos = 0 THEN <<>> ELSE <<pos>> \o MarkerPositions(rawMessage, pos + 1)

\* the special case: the sections from one marker to the next
SectionScan(message) ==
  IF Includes(message, Marker)
    THEN LET rawMessage == ReplaceLF(ReplaceCRLF(message, " "), " ")
             positions == MarkerPositions(rawMessage, 1)
             Section(i) ==
               SubSeq(rawMessage, positions[i],
                      (IF i < Len(positions) THEN positions[i + 1]
                                             ELSE Len(rawMessage) + 1) - 1)
         IN Flatten([i \in 1..Len(positions) |->
                       BracketCandidate(Section(i), SectionName, TRUE)])
    ELSE <<>>

\* the candidates of one pattern with a name group and an email group
PatternCandidates(pattern, message) ==
  LET matches == MatchAll(pattern, TRUE, message, 1)
  IN [i \in 1..Len(matches) |->
        [name |-> trim(Group(message, matches[i], 1)),
         email |-> trim(Group(message, matches[i], 2))]]

\* the candidates of the pattern with an email group only
EmailOnlyCandidates(pattern, message) ==
  LET matches == MatchAll(pattern, TRUE, message, 1)
  IN [i \in 1..Len(matches) |->
        [name |-> <<>>, email |-> trim(Group(message, matches[i], 1))]]

\* STEP 3 of the enhanced script: two patterns
PatternSweep(message) ==
  PatternCandidates(StandardPattern, message)
    \o PatternCandidates(AlternatePattern, message)

\* STEP 3 of the workflow script: nine patterns
PatternSweepAll(message) ==
  PatternCandidates(StandardPattern, message)
    \o PatternCandidates(AlternatePattern, message)
    \o PatternCandidates(NoSpacesPattern, message)
    \o PatternCandidates(TyposPattern, message)
    \o EmailOnlyCandidates(JustEmailPattern, message)
    \o PatternCandidates(CreditsPattern, message)
    \o PatternCandidates(WithPattern, message)
    \o PatternCandidates(SignedOffPattern, message)
    \o PatternCandidates(AuthorPattern, message)

\* the extractor without the scan for bare emails
EmailScanSkipped(message) == <<>>

\* the bare email addresses of the message
EmailScan(message) ==
  LET emailMatches == MatchAll(emailPattern, FALSE, message, 1)
  IN [i \in 1..Len(emailMatches) |->
        [name |-> <<>>, email |-> Matched(message, emailMatches[i])]]

\* the desperate approach: the parts after each marker
PartScan(message) ==
  LET rawContent == ReplaceLF(ReplaceCRLF(message, " "), " ")
  IN IF Includes(rawContent, Marker)
       THEN LET parts == Tail(SplitRegex(MarkerPattern, TRUE, rawContent))
            IN Flatten([i \in 1..Len(parts) |->
                          BracketCandidate(parts[i], PartName, FALSE)])
       ELSE <<>>

\* STEP 2 of the workflow script: several markers on one line
MultiScan(message) ==
  LET matches == MatchAll(multiCoAuthorPattern, FALSE, message, 1)
  IN [i \in 1..Len(matches) |->
        LET fullMatch == Matched(message, matches[i])
            nameMatch == Match(NameToBracket, TRUE, fullMatch)
        IN [name |-> IF nameMatch.ok THEN trim(Group(fullMatch, nameMatch, 1)) ELSE <<>>,
            email |-> trim(Group(message, matches[i], 1))]]

\* variant: a mention of any length is taken
UsernameScanAnyLength(message) ==
  LET found == MatchAll(usernamePattern, FALSE, message, 1)
  IN [i \in 1..Len(found) |->
        [name |-> Group(message, found[i], 1),
         email |-> Group(message, found[i], 1) \o NoReplySuffix]]

\* STEP 4 of the workflow script: @username mentions
UsernameScan(message) ==
  LET usernameMatches == MatchAll(usernamePattern, FALSE, message, 1)
      found == SelectSeq(usernameMatches, LAMBDA r : Len(Group(message, r, 1)) > 2)
  IN [i \in 1..Len(found) |->
        [name |-> Group(message, found[i], 1),
         email |-> Group(message, found[i], 1) \o NoReplySuffix]]

\* STEP 6 of the workflow script: markers of the message joined into one line
ComplexScan(message) ==
  LET joinedMessage == Join(SplitChar(message, "\n"), <<" ">>)
      complexMatches == MatchAll(complexPattern, TRUE, joinedMessage, 1)
  IN Flatten([i \in 1..Len(complexMatches) |->
                BracketCandidate(Matched(joinedMessage, complexMatches[i]),
                                 NameToBracket, TRUE)])

\* the candidates pushed by the enhanced script, in order
PushedEnhanced(message) ==
  LineScan(message) \o SectionScan(message) \o PatternSweep(message)
    \o EmailScan(message) \o PartScan(message)

\* the candidates pushed by the workflow script, in order
PushedWorkflow(message) ==
  LineScan(message) \o MultiScan(message) \o PatternSweepAll(message)
    \o UsernameScan(message) \o EmailScan(message) \o ComplexScan(message)

Pushed(s, message) ==
  IF s = "enhanced" THEN PushedEnhanced(message) ELSE PushedWorkflow(message)

(* --------------------- extractCoAuthors: the filter -------------------- *)
\* candidates the heuristic steps can push; a `< >` bracket gives an empty email
RawNames == { <<>>, <<"A","n","n">> }
RawEmails == { <<>>, <<"a","@","x">>, <<"A","@","x">>, <<"b","@","x">> }
RawCands == [name : RawNames, email : RawEmails]

RawLists == UNION {[1..n -> RawCands] : n \in 0..MaxRaw}

\* variant: the emails are compared as written
RECURSIVE FilterUniqueCaseSensitive(_, _)
FilterUniqueCaseSensitive(authors, uniqueEmails) ==
  IF authors = <<>> THEN <<>>
  ELSE LET author == Head(authors)
       IN IF author.email = <<>> \/ author.email \in uniqueEmails
            THEN FilterUniqueCaseSensitive(Tail(authors), uniqueEmails)
            ELSE <<author>> \o FilterUniqueCaseSensitive(Tail(authors),
                                            uniqueEmails \cup {author.email})

\* coauthors.filter(...) with the Set of lowercased emails seen so far
RECURSIVE FilterUnique(_, _)
FilterUnique(authors, uniqueEmails) ==
  IF authors = <<>> THEN <<>>
  ELSE LET author == Head(authors)
       IN IF author.email = <<>> \/ toLowerCase(author.email) \in uniqueEmails
            THEN FilterUnique(Tail(authors), uniqueEmails)
            ELSE <<author>> \o FilterUnique(Tail(authors),
                                            uniqueEmails \cup {toLowerCase(author.email)})

RemoveDuplicates(authors) == FilterUnique(authors, {})

InitExtract ==
  /\ coauthors \in RawLists
  /\ uniqueCoauthors = <<>>
  /\ pc = "extract"
  /\ script = "enhanced"
  /\ PipelineAtStart
  /\ NoMessage
  /\ NoCandidate
  /\ NoOrder
  /\ NoRun
  /\ NoBudget
  /\ NoBatch

\* the end of extractCoAuthors: duplicates are removed and the list returned
ReturnUnique ==
  /\ pc = "extract"
  /\ uniqueCoauthors' = RemoveDuplicates(coauthors)
  /\ pc' = "extracted"
  /\ last' = [op |-> "extract"]
  /\ UNCHANGED <<pipelineVars, coauthors, otherVars>>

NextExtract == ReturnUnique

SpecExtract == InitExtract /\ [][NextExtract]_vars

(* ------------------ extractCoAuthors: on commit messages ---------------- *)
\* the revisions of extractCoAuthors: the enhanced script, and the script of
\* the workflow file, which also scans for @username mentions
ExtractorScripts == {"enhanced", "workflow"}

Trailer(name, email) ==
  [kind |-> "trailer", name |-> name, email |-> email,
   text |-> Marker \o <<" ">> \o name \o <<" ", "<">> \o email \o <<">">>]
Body(kind, text) == [kind |-> kind, name |-> <<>>, email |-> <<>>, text |-> text]

\* the pieces a commit message is written from: trailers, and body text that
\* is plain, holds a bare email, or holds an @ mention
MessagePieces ==
  { Trailer(<<"A","l">>, <<"A","L","@","a","b",".","i","o">>),
    Trailer(<<"B","o">>, <<"b","o","@","a","b","c",".","i","o">>),
    Body("plain", <<"f","i","x">>),
    Body("email", <<"c","c"," ","c","y","@","a","b",".","i","o">>),
    Body("mention", <<"h","i"," ","@","b","o","b">>),
    Body("short", <<"t","o"," ","@","c","y">>) }

\* a newline between the pieces, or a space when they share one line
Separators == { <<"\n">>, <<" ">> }

TextOf(ps, separator) == Join([i \in 1..Len(ps) |-> ps[i].text], separator)

InitMessage ==
  /\ script \in ExtractorScripts
  /\ \E n \in 0..MaxLines : \E ps \in [1..n -> MessagePieces] :
       \E separator \in Separators :
          /\ written = [pieces |-> ps, separator |-> separator]
          /\ commitMessage = TextOf(ps, separator)
  /\ coauthors = <<>>
  /\ uniqueCoauthors = <<>>
  /\ pc = "scan"
  /\ PipelineAtStart
  /\ NoCandidate
  /\ NoOrder
  /\ NoRun
  /\ NoBudget
  /\ NoBatch

\* extractCoAuthors up to the duplicate filter: the heuristics push candidates
ScanMessage ==
  /\ pc = "scan"
  /\ IF commitMessage = <<>>
       THEN /\ pc' = "extracted"
            /\ coauthors' = <<>>
       ELSE /\ pc' = "extract"
            /\ coauthors' = Pushed(script, commitMessage)
  /\ last' = [op |-> "scan"]
  /\ UNCHANGED <<pipelineVars, uniqueCoauthors, otherVars>>

NextMessage == ScanMessage \/ ReturnUnique

SpecMessage == InitMessage /\ [][NextMessage]_vars

\* a marker followed by a name and an email that is not in angle brackets
BareMarker ==
  [kind |-> "bare", name |-> <<"C","y">>, email |-> <<"d","d","@","a","b",".","i","o">>,
   text |-> Marker \o <<" ","C","y"," ","d","d","@","a","b",".","i","o">>]

\* commit messages that hold such a marker
InitBare ==
  /\ script = "enhanced"
  /\ \E n \in 1..MaxLines : \E ps \in [1..n -> MessagePieces \cup {BareMarker}] :
       \E separator \in Separators :
          /\ \E i \in 1..n : ps[i] = BareMarker
          /\ written = [pieces |-> ps, separator |-> separator]
          /\ commitMessage = TextOf(ps, separator)
  /\ coauthors = <<>>
  /\ uniqueCoauthors = <<>>
  /\ pc = "scan"
  /\ PipelineAtStart
  /\ NoCandidate
  /\ NoOrder
  /\ NoRun
  /\ NoBudget
  /\ NoBatch

SpecBare == InitBare /\ [][NextMessage]_vars

(* --------------------------- the normalizers --------------------------- *)
\* null, which is no string
Null == <<"null">>

\* the characters with the codes 32 to 95, and those with the codes 97 to 126
AsciiFrom32 ==
  <<" ", "!", "\"", "#", "$", "%", "&", "'", "(", ")", "*", "+", ",", "-", ".", "/",
    "0", "1", "2", "3", "4", "5", "6", "7", "8", "9", ":", ";", "<", "=", ">", "?",
    "@", "A", "B", "C", "D", "E", "F", "G", "H", "I", "J", "K", "L", "M", "N", "O",
    "P", "Q", "R", "S", "T", "U", "V", "W", "X", "Y", "Z", "[", "\\", "]", "^", "_">>
AsciiFrom97 ==
  <<"a", "b", "c", "d", "e", "f", "g", "h", "i", "j", "k", "l", "m", "n", "o",
    "p", "q", "r", "s", "t", "u", "v", "w", "x", "y", "z", "{", "|", "}", "~">>

\* c.charCodeAt(0)
charCodeAt(c) ==
  IF \E i \in 1..Len(AsciiFrom97) : AsciiFrom97[i] = c
    THEN 96 + (CHOOSE i \in 1..Len(AsciiFrom97) : AsciiFrom97[i] = c)
    ELSE 31 + (CHOOSE i \in 1..Len(AsciiFrom32) : AsciiFrom32[i] = c)

\* a 32-bit integer is kept as its two 16-bit halves
Half == 65536

\* (((a << 5) - a) + b.charCodeAt(0))|0
HashStep(a, b) ==
  [hi |-> (31 * a.hi + ((31 * a.lo + charCodeAt(b)) \div Half)) % Half,
   lo |-> (31 * a.lo + charCodeAt(b)) % Half]

\* email.split('').reduce(..., 0)
RECURSIVE HashFrom(_, _)
HashFrom(a, s) == IF s = <<>> THEN a ELSE HashFrom(HashStep(a, Head(s)), Tail(s))

\* 2^32 - 1 - a, as an integer
Complement(a) == (Half - 1 - a.hi) * Half + (Half - 1 - a.lo)

\* `${Math.abs(hash)}`: a negative hash has its upper half from 2^15 on
AbsToStr(a) ==
  IF a.hi < Half \div 2 THEN NatToStr(a.hi * Half + a.lo)
  ELSE IF a.hi = Half \div 2 /\ a.lo = 0 THEN <<"2","1","4","7","4","8","3","6","4","8">>
  ELSE NatToStr(Complement(a) + 1)

\* /^(\d+)\+(.+)@users\.noreply\.github\.com$/i
githubNoReplyRegex ==
  <<LineStart, Cls(FALSE, Digits, 1, -1, FALSE, 1)>> \o Lit(<<"+">>)
    \o <<Cls(TRUE, {"\n", "\r"}, 1, -1, FALSE, 2)>> \o Lit(NoReplySuffix) \o <<LineEnd>>

\* /^[a-zA-Z0-9\-]+$/
HandleShape == <<LineStart, Cls(FALSE, HandleChars, 1, -1, FALSE, 0), LineEnd>>

\* /\(([a-zA-Z0-9\-]+)\)/
ParenthesesPattern ==
  Lit(<<"(">>) \o <<Cls(FALSE, HandleChars, 1, -1, FALSE, 1)>> \o Lit(<<")">>)

\* /^\d+$/
AllDigits == <<LineStart, Cls(FALSE, Digits, 1, -1, FALSE, 0), LineEnd>>

\* /\s+/
Spaces == <<Cls(FALSE, WhiteSpace, 1, -1, FALSE, 0)>>

GithubSuffix == <<"@","g","i","t","h","u","b",".","c","o","m">>
UsersGithubSuffix == <<"@","u","s","e","r","s",".","g","i","t","h","u","b",".","c","o","m">>

\* the second capture of the noreply pattern, or <<>> when it does not match
NoReplyUser(email, githubMatch) ==
  IF githubMatch.ok THEN Group(email, githubMatch, 2) ELSE <<>>

\* the first capture of a match, or <<>> when there is none
FirstGroup(s, r) == IF r.ok THEN Group(s, r, 1) ELSE <<>>

\* parts[1].split('@')[0] of email.split('+'), when parts[1] includes an @
PlusUser(email) ==
  IF Includes(email, <<"+">>) /\ Includes(SplitChar(email, "+")[2], <<"@">>)
    THEN SplitFirst(SplitChar(email, "+")[2], "@")
    ELSE <<>>

\* email.split('@')[0] when it is longer than two characters and not a number
EmailUser(email) ==
  IF Len(SplitFirst(email, "@")) > 2 /\ ~Test(AllDigits, FALSE, SplitFirst(email, "@"))
    THEN SplitFirst(email, "@")
    ELSE <<>>

\* name.toLowerCase().replace(/[^a-z0-9]/g, '')
CleanedName(name) == StripNonAlnum(toLowerCase(name))

\* the first word of the name when it is longer than two characters, else the
\* name, cleaned
NameFallback(name) ==
  IF Len(SplitRegex(Spaces, FALSE, name)[1]) > 2
    THEN CleanedName(SplitRegex(Spaces, FALSE, name)[1])
    ELSE CleanedName(name)

\* `contributor-${Math.abs(hash)}`
HashHandle(email) == ContributorPrefix \o AbsToStr(HashFrom([hi |-> 0, lo |-> 0], email))

\* getUsernameFromEmail of the workflow script
getUsernameFromEmail(email, name) ==
  IF email = <<>> /\ name = <<>> THEN Null
  ELSE IF Includes(name, <<"@">>) /\ Test(usernamePattern, FALSE, name)
    THEN FirstGroup(name, Match(usernamePattern, FALSE, name))
  ELSE IF NoReplyUser(email, Match(githubNoReplyRegex, TRUE, email)) # <<>>
    THEN NoReplyUser(email, Match(githubNoReplyRegex, TRUE, email))
  ELSE IF Len(PlusUser(email)) > 2 THEN PlusUser(email)
  ELSE IF EndsWith(email, GithubSuffix) THEN SplitFirst(email, "@")
  ELSE IF EndsWith(email, UsersGithubSuffix)
          \/ (EndsWith(email, NoReplySuffix) /\ ~Includes(email, <<"+">>))
    THEN SplitFirst(email, "@")
  ELSE IF name # <<>> /\ Test(HandleShape, FALSE, name) /\ Len(name) > 2 /\ Len(name) < 40
    THEN name
  ELSE IF name # <<>> /\ Test(ParenthesesPattern, FALSE, name)
    THEN FirstGroup(name, Match(ParenthesesPattern, FALSE, name))
  ELSE IF EmailUser(email) # <<>> THEN EmailUser(email)
  ELSE IF name # <<>> THEN NameFallback(name)
  ELSE IF email # <<>> THEN HashHandle(email)
  ELSE Null

\* extractUsername of the basic script
extractUsername(email, name) ==
  IF NoReplyUser(email, Match(githubNoReplyRegex, TRUE, email)) # <<>>
    THEN NoReplyUser(email, Match(githubNoReplyRegex, TRUE, email))
  ELSE IF EndsWith(email, GithubSuffix) THEN SplitFirst(email, "@")
  ELSE IF EndsWith(email, UsersGithubSuffix) THEN SplitFirst(email, "@")
  ELSE IF EndsWith(email, NoReplySuffix) /\ ~Includes(email, <<"+">>)
    THEN SplitFirst(email, "@")
  ELSE IF name # <<>> /\ Test(usernamePattern, FALSE, name)
    THEN FirstGroup(name, Match(usernamePattern, FALSE, name))
  ELSE IF EmailUser(email) # <<>> THEN EmailUser(email)
  ELSE IF name # <<>> THEN CleanedName(name)
  ELSE Null

NormalizerScripts == {"workflow", "basic"}

\* the normalizer of the script
Normalized(s, email, name) ==
  IF s = "workflow" THEN getUsernameFromEmail(email, name)
  ELSE extractUsername(email, name)

\* emails and names a co-author candidate can carry
CandidateEmails ==
  { <<>>, <<"a","l","@","a","b",".","i","o">>, <<"1","2","@","a","b",".","i","o">>, <<"@","g","i","t","h","u","b",".","c","o","m">>, <<"b","o","@","g","i","t","h","u","b",".","c","o","m">>,
    <<"7","+","b","o","b","@","u","s","e","r","s",".","n","o","r","e","p","l","y",".","g","i","t","h","u","b",".","c","o","m">>, <<"a","+","c","y","d","@","a","b",".","i","o">>, <<"c","y","@","u","s","e","r","s",".","g","i","t","h","u","b",".","c","o","m">>,
    <<"a","b">> }
CandidateNames ==
  { <<>>, <<"A","l">>, <<"A","n","n"," ","L","e","e">>, <<"b","o","b">>, <<"A","l"," ","(","a","l","-","x",")">>, <<"h","i"," ","@","b","o">>, <<"@">>, <<"!","!">>,
    <<"?","!","?"," ","L","e","e">> }

InitNormalize ==
  /\ script \in NormalizerScripts
  /\ contact \in [email : CandidateEmails, name : CandidateNames]
  /\ returned = <<>>
  /\ pc = "normalize"
  /\ coauthors = <<>>
  /\ uniqueCoauthors = <<>>
  /\ PipelineAtStart
  /\ NoMessage
  /\ NoOrder
  /\ NoRun
  /\ NoBudget
  /\ NoBatch

\* the call of the normalizer on the email and name of a candidate
Normalize ==
  /\ pc = "normalize"
  /\ returned' = Normalized(script, contact.email, contact.name)
  /\ pc' = "normalized"
  /\ last' = [op |-> "normalize"]
  /\ UNCHANGED <<pipelineVars, extractVars, script, messageVars, contact, orderVars, runVars, budgetVars, batchVars>>

NextNormalize == Normalize

SpecNormalize == InitNormalize /\ [][NextNormalize]_vars

(* ------------------- the order of the repositories --------------------- *)
\* the most entries in the contributor listing of a repository, and the most
\* co-author candidates in its commits
MaxListing == 1

ListedLogins == { <<"a","l">>, <<"A","n","n">> }
\* contributor.contributions of a listed contributor
ListedContributions == 3
ListedCoAuthors ==
  { [name |-> <<"A","l">>, email |-> <<"a","l","@","y">>],
    [name |-> <<"A","n","n">>, email |-> <<"a","n","n","@","x">>] }
\* what the email search answers for every co-author email
SearchAnswers == { NoUser, [login |-> <<"B","o","b">>, avatar_url |-> "ghuc"] }

Listings(S) == UNION {[1..n -> S] : n \in 0..MaxListing}

\* the upstream data of one repository
RepoData == [contributors : Listings(ListedLogins), coauthors : Listings(ListedCoAuthors)]

\* the loop over the contributor listing of a repository
RECURSIVE PopulateContributors(_, _, _)
PopulateContributors(m, logins, repo) ==
  IF logins = <<>> THEN m
  ELSE PopulateContributors(
         UpsertByLogin(m, Head(logins), "ghuc", ListedContributions, repo),
         Tail(logins), repo)

\* the loop over the co-authors of the commits of a repository
RECURSIVE PopulateCoAuthors(_, _, _)
PopulateCoAuthors(st, cands, repo) ==
  IF cands = <<>> THEN st
  ELSE PopulateCoAuthors(
         [map |-> UpsertCoAuthor(st.map, Head(cands).name, Head(cands).email, repo),
          emails |-> IF Includes(Head(cands).email, <<"@">>)
                       THEN st.emails \cup {toLowerCase(Head(cands).email)}
                       ELSE st.emails],
         Tail(cands), repo)

\* the loop over the repositories, in process order
RECURSIVE PopulateInOrder(_, _, _)
PopulateInOrder(st, order, repos) ==
  IF order = <<>> THEN st
  ELSE PopulateInOrder(
         PopulateCoAuthors(
           [st EXCEPT !.map = PopulateContributors(st.map, repos[Head(order)].contributors,
                                                   Repos[Head(order)])],
           repos[Head(order)].coauthors, Repos[Head(order)]),
         Tail(order), repos)

Reverse(s) == [i \in 1..Len(s) |-> s[Len(s) + 1 - i]]

\* the aggregate counts of the snapshot
Aggregate(m) == [records |-> Len(m), total |-> SumContributions(m)]

InitOrder ==
  /\ upstream \in [repos : [1..NumRepos -> RepoData], answer : SearchAnswers]
  /\ processOrder = [i \in 1..NumRepos |-> i]
  /\ firstAggregate = <<>>
  /\ pc = "populate"
  /\ script = "enhanced"
  /\ coauthors = <<>>
  /\ uniqueCoauthors = <<>>
  /\ PipelineAtStart
  /\ NoMessage
  /\ NoCandidate
  /\ NoRun
  /\ NoBudget
  /\ NoBatch

\* the loop over the repositories, on the upstream data
PopulateAll ==
  /\ pc = "populate"
  /\ contributorsMap' =
       PopulateInOrder([map |-> <<>>, emails |-> {}], processOrder, upstream.repos).map
  /\ coAuthorEmails' =
       PopulateInOrder([map |-> <<>>, emails |-> {}], processOrder, upstream.repos).emails
  /\ pc' = "lookup"
  /\ last' = [op |-> "populate"]
  /\ UNCHANGED <<repoIdx, ops, applied, dedupVars, extractVars, otherVars>>

\* the batch lookup on the upstream data, and the update of the pending records
ResolveUpstream ==
  /\ pc = "lookup"
  /\ contributorsMap' =
       ResolverUpdate(contributorsMap, [e \in coAuthorEmails |-> upstream.answer])
  /\ pc' = "discover"
  /\ last' = [op |-> "resolve", found |-> [e \in coAuthorEmails |-> upstream.answer],
              before |-> contributorsMap]
  /\ UNCHANGED <<coAuthorEmails, repoIdx, ops, applied, dedupVars, extractVars, otherVars>>

\* the run is over; a run on the same upstream data takes the repositories in
\* the opposite order
ProcessOtherOrder ==
  /\ pc = "done" /\ firstAggregate = <<>>
  /\ firstAggregate' = Aggregate(contributorsMap)
  /\ processOrder' = Reverse(processOrder)
  /\ contributorsMap' = <<>>
  /\ coAuthorEmails' = {}
  /\ duplicates' = <<>>
  /\ dupIdx' = 1
  /\ mergedLogins' = {}
  /\ preMap' = <<>>
  /\ absorbedLog' = <<>>
  /\ pc' = "populate"
  /\ last' = [op |-> "other_order"]
  /\ UNCHANGED <<repoIdx, ops, applied, pass, extractVars, script, messageVars,
                 normalizeVars, upstream, runVars, budgetVars, batchVars>>

NextOrder ==
  \/ PopulateAll
  \/ ResolveUpstream
  \/ Discover
  \/ MergeSet
  \/ DedupDone
  \/ ProcessOtherOrder

SpecOrder == InitOrder /\ [][NextOrder]_vars

(* ----------------------------- the run end ----------------------------- *)
\* The scripts that save a snapshot and update the history: the enhanced
\* script and the basic script.
RunScripts == {"enhanced", "basic"}

\* if (history.length > 100)
HistoryLimit == 100

\* the lengths of the history array the run finds
PriorLengths == {0, 1, 2, 98, 99, 100, 101}

\* the timestamp of the run, later than every timestamp of the history found
RunStamps == {200, 201}

\* metrics.stats.contributors.total
Totals == {1, 2}

AbsentFile == [kind |-> "absent"]
\* a file that JSON.parse rejects
BrokenFile == [kind |-> "text"]
\* a file that holds a JSON value that is no array
ValueFile == [kind |-> "json", array |-> FALSE]
ArrayFile(items) == [kind |-> "json", array |-> TRUE, value |-> items]
SnapshotOf(m) == [kind |-> "json", array |-> FALSE, value |-> m]

\* the history a run before this one left: one entry per run, oldest first
StampedHistory(n) == [i \in 1..n |-> [timestamp |-> i, contributors |-> 1 + (i % 2)]]

PriorSnapshots == {AbsentFile, SnapshotOf([timestamp |-> 1, contributors |-> 1])}
PriorHistories ==
  {AbsentFile, BrokenFile, ValueFile} \cup {ArrayFile(StampedHistory(n)) : n \in PriorLengths}

\* let history = []; if (fs.existsSync(HISTORY_FILE)) { try { history =
\* JSON.parse(...) } catch { } }
LoadedHistory(file) ==
  IF file.kind = "json" THEN file ELSE ArrayFile(<<>>)

\* the entry of the run in the history
historicalEntry(m) == [timestamp |-> m.timestamp, contributors |-> m.contributors]

\* history.slice(-n), history.slice(history.length - n)
Slice(h, n) == SubSeq(h, Len(h) - n + 1, Len(h))

\* the truncation that keeps the oldest entries
KeepOldest(h) == SubSeq(h, 1, IF Len(h) > HistoryLimit THEN HistoryLimit ELSE Len(h))

\* if (history.length > 100) history = history.slice(-100)
Truncated(h) == IF Len(h) > HistoryLimit THEN Slice(h, HistoryLimit) ELSE h

\* history.push(entry) and the truncation
Appended(h, entry) == Truncated(Append(h, entry))

\* the names the try block of collectMetrics declares before the statistics step
DeclaredNames == {"coAuthorEmails", "emailToGitHubUser", "duplicates", "mergedLogins"}

\* the names the coauthor_processing statistics read
StatisticsReads ==
  {"coAuthorEmails", "emailToGitHubUser", "duplicates", "usernameToDisplayName",
   "mergedLogins"}

InitRun ==
  /\ script \in RunScripts
  /\ outputDir \in {"present", "creatable", "blocked"}
  /\ priorFiles \in [snapshot : PriorSnapshots, history : PriorHistories]
  /\ outputDir # "present" =>
       priorFiles = [snapshot |-> AbsentFile, history |-> AbsentFile]
  /\ snapshotFile = priorFiles.snapshot
  /\ historyFile = priorFiles.history
  /\ metrics = <<>>
  /\ exitCode = <<>>
  /\ failure = <<>>
  /\ pc = "setup"
  /\ coauthors = <<>>
  /\ uniqueCoauthors = <<>>
  /\ PipelineAtStart
  /\ NoMessage
  /\ NoCandidate
  /\ NoOrder
  /\ NoBudget
  /\ NoBatch

\* catch (error) { process.exit(1) }
Thrown(cause) ==
  /\ pc' = "exited"
  /\ exitCode' = <<1>>
  /\ failure' = cause

\* if (!fs.existsSync(OUTPUT_DIR)) fs.mkdirSync(OUTPUT_DIR, { recursive: true })
CreateOutput ==
  /\ pc = "setup"
  /\ IF outputDir = "blocked"
       THEN /\ Thrown(<<"mkdir">>)
            /\ UNCHANGED outputDir
       ELSE /\ outputDir' = "present"
            /\ pc' = "collect"
            /\ UNCHANGED <<exitCode, failure>>
  /\ last' = [op |-> "create_output"]
  /\ UNCHANGED <<pipelineVars, extractVars, script, messageVars, normalizeVars, orderVars,
                 budgetVars, batchVars,
                 snapshotFile, historyFile, priorFiles, metrics>>

\* the phases from the repository listing to the aggregates: they end with the
\* aggregates, or one of them throws
CollectPhases ==
  /\ pc = "collect"
  /\ \/ /\ Thrown(<<"phase">>)
        /\ UNCHANGED metrics
     \/ /\ metrics' \in [timestamp : RunStamps, contributors : Totals]
        /\ pc' = IF script = "enhanced" THEN "statistics" ELSE "save"
        /\ UNCHANGED <<exitCode, failure>>
  /\ last' = [op |-> "collect"]
  /\ UNCHANGED <<pipelineVars, extractVars, script, messageVars, normalizeVars, orderVars,
                 budgetVars, batchVars,
                 outputDir, snapshotFile, historyFile, priorFiles>>

\* metrics.stats.coauthor_processing = { ... }: reading a name that is not
\* declared throws a ReferenceError
Statistics ==
  /\ pc = "statistics"
  /\ IF StatisticsReads \subseteq DeclaredNames
       THEN /\ pc' = "save"
            /\ UNCHANGED <<exitCode, failure>>
       ELSE Thrown(<<>>)
  /\ last' = [op |-> "statistics"]
  /\ UNCHANGED <<pipelineVars, extractVars, script, messageVars, normalizeVars, orderVars,
                 budgetVars, batchVars,
                 outputDir, snapshotFile, historyFile, priorFiles, metrics>>

\* fs.writeFileSync(OUTPUT_FILE, JSON.stringify(metrics, null, 2))
SaveSnapshot ==
  /\ pc = "save"
  /\ snapshotFile' = SnapshotOf(metrics)
  /\ pc' = "history"
  /\ last' = [op |-> "save"]
  /\ UNCHANGED <<pipelineVars, extractVars, script, messageVars, normalizeVars, orderVars,
                 budgetVars, batchVars,
                 outputDir, historyFile, priorFiles, metrics, exitCode, failure>>

\* the update of the history, and the end of the run: a value without push
\* throws a TypeError
UpdateHistory ==
  /\ pc = "history"
  /\ IF LoadedHistory(historyFile).array
       THEN /\ historyFile' =
                 ArrayFile(Appended(LoadedHistory(historyFile).value, historicalEntry(metrics)))
            /\ pc' = "exited"
            /\ exitCode' = <<0>>
            /\ UNCHANGED failure
       ELSE /\ Thrown(<<"history">>)
            /\ UNCHANGED historyFile
  /\ last' = [op |-> "history"]
  /\ UNCHANGED <<pipelineVars, extractVars, script, messageVars, normalizeVars, orderVars,
                 budgetVars, batchVars,
                 outputDir, snapshotFile, priorFiles, metrics>>

NextRun ==
  \/ CreateOutput
  \/ CollectPhases
  \/ Statistics
  \/ SaveSnapshot
  \/ UpdateHistory

SpecRun == InitRun /\ [][NextRun]_vars

(* -------------------------- the request budget ------------------------- *)
\* let remainingRequests = 5000
DefaultBudget == 5000

\* while (hasNextPage && remainingRequests > 5)
SafetyThreshold == 5

\* params.maxPages
PageLimits == {1, 2, 3}

\* the page limit when the call gives none
DefaultMaxPages == 10

\* the scripts with a paginated fetch: getAllItems of the enhanced script and
\* of the workflow file, getAllRepositories of the basic script
FetchScripts == {"enhanced", "workflow", "basic"}

\* params.maxPages of the calls; 0 stands for a call without it
GivenLimits(s) == IF s = "basic" THEN {0} ELSE PageLimits \cup {0}

\* params.maxPages || 10; page > 10 in getAllRepositories
maxPagesOf(given) == IF given = 0 THEN DefaultMaxPages ELSE given

\* The answers the API can give to a request on the quota it still grants: an
\* error, or (while the quota lasts) a response with or without the rate-limit
\* header, with a full page or a short one, with or without a hit.
Answers(q) ==
  {[ok |-> FALSE]} \cup
  (IF q > 0
     THEN {[ok |-> TRUE, header |-> h, full |-> f] : h \in BOOLEAN, f \in BOOLEAN}
     ELSE {})

\* the requests the API still grants after the answer
Granted(q, ans) == IF ans.ok THEN q - 1 ELSE q

\* apiRequest: remainingRequests after the answer, read from the header
\* x-ratelimit-remaining
Tracked(rem, q, ans) == IF ans.ok /\ ans.header THEN q - 1 ELSE rem

\* apiRequest: the request as it is issued, with the budget tracked then
Issued(by, rem) == [by |-> by, budget |-> rem]

\* a request of the resolver, with the place in the batch of the email it is for
IssuedFor(by, rem, i) == [by |-> by, budget |-> rem, email |-> i]

\* the state after the rate-limit check of collectMetrics: the budget is the
\* quota, or the default when the check failed
BudgetAtStart ==
  /\ quota \in 0..MaxQuota
  /\ remainingRequests \in {quota, DefaultBudget}
  /\ totalRequests = 0
  /\ requestLog = <<>>

\* const items = []; let page = 1; let hasNextPage = true
NewFetch(maxPages) ==
  [items |-> <<>>, page |-> 1, hasNextPage |-> TRUE, maxPages |-> maxPages,
   received |-> <<>>, error |-> FALSE, state |-> "loop", result |-> <<>>]

NoFetch == [state |-> "none"]

\* the loop condition without the budget
MayRequestAnyBudget(f, rem) == f.hasNextPage

\* hasNextPage && remainingRequests > 5
MayRequest(f, rem) == f.hasNextPage /\ rem > SafetyThreshold

\* the condition of the loop: the workflow file and the basic script have no
\* budget in it
LoopCondition(s, f, rem) == IF s = "enhanced" THEN MayRequest(f, rem) ELSE f.hasNextPage

\* return items
Returned(f) == [f EXCEPT !.state = "returned", !.result = f.items]

\* the loop without the limit of pages
PageArrivedNoLimit(f, ans) ==
  [f EXCEPT !.items = Append(f.items, [page |-> f.page, full |-> ans.full]),
            !.received = Append(f.received, [page |-> f.page, full |-> ans.full]),
            !.hasNextPage = ans.full,
            !.page = f.page + 1]

\* a page arrived: items.push(...data); hasNextPage = data.length === per_page;
\* page++; if (page > maxPages) break
PageArrived(f, ans) ==
  IF f.page + 1 > f.maxPages
    THEN Returned([f EXCEPT !.items = Append(f.items, [page |-> f.page, full |-> ans.full]),
                            !.received = Append(f.received, [page |-> f.page, full |-> ans.full]),
                            !.hasNextPage = ans.full,
                            !.page = f.page + 1])
    ELSE [f EXCEPT !.items = Append(f.items, [page |-> f.page, full |-> ans.full]),
                   !.received = Append(f.received, [page |-> f.page, full |-> ans.full]),
                   !.hasNextPage = ans.full,
                   !.page = f.page + 1]

\* catch (error) { break }
PageFailed(f) == Returned([f EXCEPT !.error = TRUE])

InitFetch ==
  /\ BudgetAtStart
  /\ fetches = [calls |-> 0, call |-> NoFetch]
  /\ lookups = <<>>
  /\ pc = "fetch"
  /\ script = "enhanced"
  /\ coauthors = <<>>
  /\ uniqueCoauthors = <<>>
  /\ PipelineAtStart
  /\ NoMessage
  /\ NoCandidate
  /\ NoOrder
  /\ NoRun
  /\ NoBatch

\* a call of getAllItems, after the call before it returned
CallGetAllItems ==
  /\ pc = "fetch"
  /\ fetches.call.state \in {"none", "returned"}
  /\ fetches.calls < MaxCalls
  /\ \E given \in GivenLimits(script) :
       fetches' = [calls |-> fetches.calls + 1, call |-> NewFetch(maxPagesOf(given))]
  /\ last' = [op |-> "call"]
  /\ UNCHANGED <<pc, pipelineVars, extractVars, script, messageVars, normalizeVars,
                 orderVars, runVars, batchVars, remainingRequests, totalRequests, quota,
                 requestLog, lookups>>

\* one turn of the loop of getAllItems: the request of a page and its answer
RequestPage ==
  /\ pc = "fetch"
  /\ fetches.call.state = "loop"
  /\ LoopCondition(script, fetches.call, remainingRequests)
  /\ \E ans \in Answers(quota) :
       /\ fetches' = [fetches EXCEPT !.call = IF ans.ok THEN PageArrived(fetches.call, ans)
                                                       ELSE PageFailed(fetches.call)]
       /\ quota' = Granted(quota, ans)
       /\ remainingRequests' = IF script = "enhanced"
                                  THEN Tracked(remainingRequests, quota, ans)
                                  ELSE remainingRequests
  /\ totalRequests' = IF script = "enhanced" THEN totalRequests + 1 ELSE totalRequests
  /\ requestLog' = Append(requestLog, Issued("getAllItems", remainingRequests))
  /\ last' = [op |-> "page"]
  /\ UNCHANGED <<pc, pipelineVars, extractVars, script, messageVars, normalizeVars,
                 orderVars, runVars, batchVars, lookups>>

\* the loop of getAllItems ends on its condition
ReturnItems ==
  /\ pc = "fetch"
  /\ fetches.call.state = "loop"
  /\ ~LoopCondition(script, fetches.call, remainingRequests)
  /\ fetches' = [fetches EXCEPT !.call = Returned(fetches.call)]
  /\ last' = [op |-> "return_items"]
  /\ UNCHANGED <<pc, pipelineVars, extractVars, script, messageVars, normalizeVars,
                 orderVars, runVars, batchVars, remainingRequests, totalRequests, quota,
                 requestLog, lookups>>

NextFetch ==
  \/ CallGetAllItems
  \/ RequestPage
  \/ ReturnItems

SpecFetch == InitFetch /\ [][NextFetch]_vars

\* the paginated fetch of each script, on a quota that may outlast the default
\* limit of pages
InitPages ==
  /\ script \in FetchScripts
  /\ quota \in (0..MaxQuota) \cup {DefaultMaxPages + 1}
  /\ remainingRequests \in {quota, DefaultBudget}
  /\ totalRequests = 0
  /\ requestLog = <<>>
  /\ fetches = [calls |-> 0, call |-> NoFetch]
  /\ lookups = <<>>
  /\ pc = "fetch"
  /\ coauthors = <<>>
  /\ uniqueCoauthors = <<>>
  /\ PipelineAtStart
  /\ NoMessage
  /\ NoCandidate
  /\ NoOrder
  /\ NoRun
  /\ NoBatch

\* every awaited request is answered, and the loop goes on when it is
SpecPages ==
  InitPages /\ [][NextFetch]_vars /\ WF_vars(RequestPage) /\ WF_vars(ReturnItems)

(* --------------------------- the batch lookup -------------------------- *)
\* the emails of the batch: addresses of users.noreply.github.com and others
EmailKinds == {"noreply", "plain"}

EmailBatches == UNION {[1..n -> EmailKinds] : n \in 1..MaxEmails}

\* lookupUserByEmail: the request the lookup of an email starts with
FirstRequest(kind) == IF kind = "noreply" THEN "getByUsername" ELSE "search"

InitLookup ==
  /\ BudgetAtStart
  /\ fetches = <<>>
  /\ \E batch \in EmailBatches :
       lookups = [emails |-> batch, i |-> 1, request |-> FirstRequest(batch[1]),
                  results |-> {}]
  /\ pc = "lookup"
  /\ script = "enhanced"
  /\ coauthors = <<>>
  /\ uniqueCoauthors = <<>>
  /\ PipelineAtStart
  /\ NoMessage
  /\ NoCandidate
  /\ NoOrder
  /\ NoRun
  /\ NoBatch

\* the loop of batchLookupUsersByEmail moves to the next email
NextEmail(l, found) ==
  [l EXCEPT !.i = l.i + 1,
            !.request = IF l.i + 1 <= Len(l.emails)
                          THEN FirstRequest(l.emails[l.i + 1]) ELSE "none",
            !.results = IF found THEN l.results \cup {l.i} ELSE l.results]

\* the lookup that goes on to the search after every profile fetch
AfterAnswerAlwaysSearch(l, ans) ==
  CASE l.request = "getByUsername" -> [l EXCEPT !.request = "search"]
    [] l.request = "search" ->
         IF ans.ok /\ ans.full THEN [l EXCEPT !.request = "details"]
                               ELSE NextEmail(l, FALSE)
    [] OTHER ->
         NextEmail(l, ans.ok)

\* lookupUserByEmail after the answer to its request: the user of a noreply
\* address, or the fall back to the search; the search with a hit, without, or
\* failed; the details of the hit
AfterAnswer(l, ans) ==
  CASE l.request = "getByUsername" ->
         IF ans.ok THEN NextEmail(l, TRUE) ELSE [l EXCEPT !.request = "search"]
    [] l.request = "search" ->
         IF ans.ok /\ ans.full THEN [l EXCEPT !.request = "details"]
                               ELSE NextEmail(l, FALSE)
    [] OTHER ->
         NextEmail(l, ans.ok)

\* a request of lookupUserByEmail for the email the batch is at, and its answer
LookupRequest ==
  /\ pc = "lookup" /\ lookups # <<>>
  /\ lookups.i <= Len(lookups.emails)
  /\ \E ans \in Answers(quota) :
       /\ lookups' = AfterAnswer(lookups, ans)
       /\ quota' = Granted(quota, ans)
       /\ remainingRequests' = Tracked(remainingRequests, quota, ans)
       /\ last' = [op |-> "lookup_request", request |-> lookups.request,
                   email |-> lookups.i, ok |-> ans.ok]
  /\ totalRequests' = totalRequests + 1
  /\ requestLog' = Append(requestLog, IssuedFor(lookups.request, remainingRequests, lookups.i))
  /\ UNCHANGED <<pc, pipelineVars, extractVars, script, messageVars, normalizeVars,
                 orderVars, runVars, batchVars, fetches>>

\* batchLookupUsersByEmail returns; the run goes on to the deduplication
BatchReturned ==
  /\ pc = "lookup" /\ lookups # <<>>
  /\ lookups.i > Len(lookups.emails)
  /\ pc' = "discover"
  /\ last' = [op |-> "batch_returned"]
  /\ UNCHANGED <<pipelineVars, extractVars, otherVars>>

NextLookup ==
  \/ LookupRequest
  \/ BatchReturned

SpecLookup == InitLookup /\ [][NextLookup]_vars

(* ----------------------- the batches of repositories ------------------- *)
\* The scripts that process the repositories in batches: the enhanced script
\* (one at a time), the workflow script and the basic script (three at a time).
BatchScripts == {"enhanced", "workflow", "basic"}

\* const MAX_BATCH_SIZE = 1; const MAX_BATCH_SIZE = 3; const BATCH_SIZE = 3
BatchSize(s) == IF s = "enhanced" THEN 1 ELSE 3

\* repo.name === 'OmniCloud-Full'
Flagship == "OmniCloud-Full"

\* the names of the repositories, by their place in the listing
BatchNames == <<"r1", Flagship, "r3">>

\* Date.now() - 30 * 24 * 60 * 60 * 1000, in days
RecentDays == 30

\* the days since repo.pushed_at
PushedAges == {1, 40}

\* what the fetches of a repository meet: a commit count in the Link header,
\* no Link header, or one fetch that fails
Outcomes ==
  {"link", "nolink", "count_fails", "contributors_fail", "commits_fail",
   "languages_fail", "user_fails"}

\* the total of commits read from the Link header
LinkCount == 7

\* the lines of code estimated from the languages of a repository
RepoLines == 5

\* contributor.login of the listing and commit.author.login of the commit
BatchListedLogin == <<"a","l">>
BatchAuthorLogin == <<"A","l">>

\* the outcomes that differ for the script: only the basic script fetches
\* users, and it reads no commit count and no languages
OutcomesOf(s) ==
  IF s = "basic" THEN {"nolink", "contributors_fail", "commits_fail", "user_fails"}
  ELSE Outcomes \ {"user_fails"}

ListedRepos(s) ==
  {repos \in [1..MaxRepos -> [name : Range(BatchNames), age : PushedAges, outcome : OutcomesOf(s)]] :
     \A i \in 1..MaxRepos : repos[i].name = BatchNames[i]}

\* primaryRepos
IsPrimary(repo) == repo.name = Flagship \/ repo.age < RecentDays
primaryRepos(repos) == SelectSeq(repos, IsPrimary)

\* remainingRepos
IsRemaining(repos, repo) ==
  ~\E i \in 1..Len(primaryRepos(repos)) : primaryRepos(repos)[i].name = repo.name
remainingRepos(repos) == SelectSeq(repos, LAMBDA repo : IsRemaining(repos, repo))

\* [...primaryRepos, ...remainingRepos]; the basic script takes the listing
allReposInProcessOrder(s, repos) ==
  IF s = "basic" THEN repos ELSE primaryRepos(repos) \o remainingRepos(repos)

\* the requests the processing of a repository awaits, in order
Fetches(s) ==
  CASE s = "enhanced" -> <<"contributors", "commitCount", "commits", "languages">>
    [] s = "workflow" -> <<"languages", "commitCount", "commits", "contributors">>
    [] OTHER -> <<"contributors", "commits", "user">>

Finished(s) == Len(Fetches(s)) + 1

\* the request is answered, not rejected
Answered(repo, kind) ==
  CASE kind = "contributors" -> repo.outcome # "contributors_fail"
    [] kind = "commitCount" -> repo.outcome # "count_fails"
    [] kind = "commits" -> repo.outcome # "commits_fail"
    [] kind = "languages" -> repo.outcome # "languages_fail"
    [] OTHER -> repo.outcome # "user_fails"

\* const repoMetrics = { name, ..., linesOfCode: 0, commits: 0, contributors: 0 }
NewRepoMetrics(repo) ==
  [name |-> repo.name, linesOfCode |-> 0, commits |-> 0, contributors |-> 0]

NewTask(repo) ==
  [repo |-> repo, step |-> 0, entry |-> NewRepoMetrics(repo), seen |-> {},
   overlapped |-> FALSE]

\* another task is between two of its answers
OthersUnderWay(s, ts, i) ==
  \E j \in 1..Len(ts) : j # i /\ ts[j].step \in 2..Len(Fetches(s))

NothingCollected == [repositories |-> <<>>, totalCommits |-> 0, linesOfCode |-> 0]

\* the check read when the request was issued
PresentAtRequest(m, seen, key) == key \in seen

\* contributorsMap.has(normalizedLogin), read when the answer is processed
Present(m, seen, key) == Has(m, key)

\* contributorsMap.set(key, record)
SetRecord(m, key, record) ==
  IF Has(m, key) THEN [m EXCEPT ![IndexOfKey(m, key)] = record] ELSE Append(m, record)

\* basic script: if (contributorsMap.has(normalizedLogin)) { existing.contributions
\* += ... } else { contributorsMap.set(normalizedLogin, { ... }) }
BatchUpsert(m, seen, login, delta, repo) ==
  IF Present(m, seen, toLowerCase(login))
    THEN [m EXCEPT ![IndexOfKey(m, toLowerCase(login))].contributions = @ + delta,
                   ![IndexOfKey(m, toLowerCase(login))].repositories = @ \cup {repo}]
    ELSE SetRecord(m, toLowerCase(login),
                   [NewDirect(toLowerCase(login), login, "other")
                      EXCEPT !.contributions = delta, !.repositories = {repo}])

\* the state a block of the processing works on: the task, the registry and
\* the totals
Work(t, m, c) == [task |-> t, map |-> m, collected |-> c]

\* the processing goes on to its next request
Onward(w) == [w EXCEPT !.task.step = @ + 1, !.task.seen = Keys(w.map)]

\* the processing goes on to the request after the next
SkipOne(w) == [w EXCEPT !.task.step = @ + 2, !.task.seen = Keys(w.map)]

\* the processing of the repository ends without an entry
Ended(s, w) == [w EXCEPT !.task.step = Finished(s)]

\* metrics.repositories.push(repoMetrics)
PushedEntry(s, w) ==
  [w EXCEPT !.task.step = Finished(s),
            !.collected.repositories = Append(@, w.task.entry)]

\* repoMetrics.contributors = contributors.length and the loop over the listing
ContributorsListed(w) ==
  [w EXCEPT !.task.entry.contributors = 1,
            !.map = UpsertByLogin(@, BatchListedLogin, "ghuc", ListedContributions,
                                  w.task.repo.name)]

\* the total of the Link header
CommitsCounted(w) ==
  [w EXCEPT !.task.entry.commits = LinkCount,
            !.collected.totalCommits = @ + LinkCount]

\* the author of the one commit fetched
AuthorCounted(w) ==
  [w EXCEPT !.map = UpsertByLogin(@, BatchAuthorLogin, "ghuc", 1, w.task.repo.name)]

\* repoMetrics.commits = allCommits.length; metrics.stats.totalCommits += ...
CommitsFetched(w) ==
  AuthorCounted([w EXCEPT !.task.entry.commits = 1, !.collected.totalCommits = @ + 1])

\* if (!repoMetrics.commits) { repoMetrics.commits = allCommits.length ... }
CommitsFetchedIfUncounted(w) ==
  IF w.task.entry.commits = 0 THEN CommitsFetched(w) ELSE AuthorCounted(w)

\* repoMetrics.linesOfCode = repoLines; metrics.stats.linesOfCode += repoLines
LinesCounted(w) ==
  [w EXCEPT !.task.entry.linesOfCode = RepoLines,
            !.collected.linesOfCode = @ + RepoLines]

\* the enhanced script with the push of the entry inside the try block
AfterFetchEnhancedPushInTry(w, kind, ok) ==
  CASE kind = "contributors" -> Onward(IF ok THEN ContributorsListed(w) ELSE w)
    [] kind = "commitCount" ->
         Onward(IF ok /\ w.task.repo.outcome = "link" THEN CommitsCounted(w) ELSE w)
    [] kind = "commits" -> Onward(IF ok THEN CommitsFetchedIfUncounted(w) ELSE w)
    [] OTHER -> IF ok THEN PushedEntry("enhanced", LinesCounted(w)) ELSE Ended("enhanced", w)

\* enhanced script: the block that runs on the answer to a request
AfterFetchEnhanced(w, kind, ok) ==
  CASE kind = "contributors" -> Onward(IF ok THEN ContributorsListed(w) ELSE w)
    [] kind = "commitCount" ->
         Onward(IF ok /\ w.task.repo.outcome = "link" THEN CommitsCounted(w) ELSE w)
    [] kind = "commits" -> Onward(IF ok THEN CommitsFetchedIfUncounted(w) ELSE w)
    [] OTHER -> PushedEntry("enhanced", IF ok THEN LinesCounted(w) ELSE w)

\* workflow script: the block that runs on the answer to a request
AfterFetchWorkflow(w, kind, ok) ==
  CASE kind = "languages" ->
         IF ok THEN Onward(LinesCounted(w)) ELSE PushedEntry("workflow", w)
    [] kind = "commitCount" ->
         IF ~ok THEN PushedEntry("workflow", w)
         ELSE IF w.task.repo.outcome = "link" THEN SkipOne(CommitsCounted(w))
         ELSE Onward(w)
    [] kind = "commits" -> Onward(IF ok THEN CommitsFetched(w) ELSE w)
    [] OTHER -> PushedEntry("workflow", IF ok THEN ContributorsListed(w) ELSE w)

\* basic script: the block that runs on the answer to a request
AfterFetchBasic(w, kind, ok) ==
  CASE kind = "contributors" ->
         IF ok
           THEN Onward([w EXCEPT !.map = BatchUpsert(@, w.task.seen, BatchListedLogin,
                                                    ListedContributions, w.task.repo.name)])
           ELSE Ended("basic", w)
    [] kind = "commits" -> IF ok THEN Onward(w) ELSE Ended("basic", w)
    [] OTHER ->
         Ended("basic", [w EXCEPT !.map = BatchUpsert(@, w.task.seen, BatchAuthorLogin, 1,
                                                      w.task.repo.name)])

AfterFetch(s, w, kind, ok) ==
  CASE s = "enhanced" -> AfterFetchEnhanced(w, kind, ok)
    [] s = "workflow" -> AfterFetchWorkflow(w, kind, ok)
    [] OTHER -> AfterFetchBasic(w, kind, ok)

\* the block of task t that runs on the answer it awaits
Resumed(s, t, m, c) ==
  AfterFetch(s, Work(t, m, c), Fetches(s)[t.step], Answered(t.repo, Fetches(s)[t.step]))

InitBatch ==
  /\ script \in BatchScripts
  /\ allRepos \in ListedRepos(script)
  /\ tasks = [i \in 1..Len(allReposInProcessOrder(script, allRepos)) |->
                NewTask(allReposInProcessOrder(script, allRepos)[i])]
  /\ processLog = <<>>
  /\ collected = NothingCollected
  /\ pc = "batch"
  /\ coauthors = <<>>
  /\ uniqueCoauthors = <<>>
  /\ PipelineAtStart
  /\ NoMessage
  /\ NoCandidate
  /\ NoOrder
  /\ NoRun
  /\ NoBudget

\* the tasks not started yet
Waiting == {i \in 1..Len(tasks) : tasks[i].step = 0}

\* the batch that starts at task i
BatchFrom(s, i) == {j \in i..(i + BatchSize(s) - 1) : j <= Len(tasks)}

\* the start of each task in the order of the list
StartsOf(from, to) == [k \in 1..(to - from + 1) |-> [repo |-> tasks[from + k - 1].repo.name, at |-> "start"]]

\* the batches before have ended: the next batch starts, each of its tasks
\* running to its first request
StartBatch ==
  /\ pc = "batch"
  /\ Waiting # {}
  /\ \A i \in 1..Len(tasks) : tasks[i].step \in {0, Finished(script)}
  /\ tasks' = [i \in 1..Len(tasks) |->
                 IF i \in BatchFrom(script, Least(Waiting))
                   THEN [tasks[i] EXCEPT !.step = 1, !.seen = Keys(contributorsMap)]
                   ELSE tasks[i]]
  /\ processLog' = processLog \o
       StartsOf(Least(Waiting), Least(Waiting) + Cardinality(BatchFrom(script, Least(Waiting))) - 1)
  /\ last' = [op |-> "start_batch"]
  /\ UNCHANGED <<pc, pipelineVars, extractVars, script, messageVars, normalizeVars,
                 orderVars, runVars, budgetVars, allRepos, collected>>

\* the answer a task awaits arrives, and the task runs to its next request or
\* to its end
Respond ==
  /\ pc = "batch"
  /\ \E i \in 1..Len(tasks) :
       /\ tasks[i].step \in 1..Len(Fetches(script))
       /\ tasks' = [tasks EXCEPT ![i] =
                      [Resumed(script, tasks[i], contributorsMap, collected).task EXCEPT
                         !.overlapped = @ \/ OthersUnderWay(script, tasks, i)]]
       /\ contributorsMap' = Resumed(script, tasks[i], contributorsMap, collected).map
       /\ collected' = Resumed(script, tasks[i], contributorsMap, collected).collected
  /\ last' = [op |-> "respond"]
  /\ UNCHANGED <<pc, coAuthorEmails, repoIdx, ops, applied, dedupVars, extractVars, script,
                 messageVars, normalizeVars, orderVars, runVars, budgetVars, allRepos,
                 processLog>>

\* every batch has ended
BatchesDone ==
  /\ pc = "batch"
  /\ \A i \in 1..Len(tasks) : tasks[i].step = Finished(script)
  /\ pc' = "batched"
  /\ last' = [op |-> "batches_done"]
  /\ UNCHANGED <<pipelineVars, extractVars, otherVars>>

NextBatch ==
  \/ StartBatch
  \/ Respond
  \/ BatchesDone

SpecBatch == InitBatch /\ [][NextBatch]_vars


(* ------------------- the report of the contributors ------------------- *)
ReportScripts == {"enhanced", "basic"}

\* slice(0, 20) in the enhanced script, slice(0, 10) in the basic one
TopLength(s) == IF s = "enhanced" THEN 20 ELSE 10

\* the sizes of the registry after the deduplication
RegistrySizes == {0, 1, 2, 9, 10, 11, 19, 20, 21}

\* the contributions of the records that differ from the others
RaisedContributions == {1, 2, 3}

\* the login of the i-th record
ReportLogin(i) == [k \in 1..i |-> "a"]

\* a registry of n records with one contribution each, but for two of them
ReportRegistry(n, p, q, vp, vq) ==
  [i \in 1..n |->
     [NewDirect(ReportLogin(i), ReportLogin(i), "ghuc") EXCEPT
        !.contributions = IF i = p THEN vp ELSE IF i = q THEN vq ELSE 1]]

\* Array.prototype.sort with (a, b) => b.contributions - a.contributions
RECURSIVE InsertByContributions(_, _)
InsertByContributions(sorted, x) ==
  IF sorted = <<>> THEN <<x>>
  ELSE IF Head(sorted).contributions >= x.contributions
         THEN <<Head(sorted)>> \o InsertByContributions(Tail(sorted), x)
         ELSE <<x>> \o sorted

RECURSIVE SortByContributions(_)
SortByContributions(s) ==
  IF s = <<>> THEN <<>>
  ELSE InsertByContributions(SortByContributions(SubSeq(s, 1, Len(s) - 1)), s[Len(s)])

\* the array without the sort
MapOrder(m) == m

\* Array.from(contributorsMap.values()).sort(...)
allContributors(m) == SortByContributions(m)

\* Array.prototype.slice(0, n)
SliceFromStart(s, n) == SubSeq(s, 1, IF n < Len(s) THEN n ELSE Len(s))

\* the fields of a listed record that the report is read on
Listed(c) == [login |-> c.login, contributions |-> c.contributions]

ListedAll(s) == [i \in 1..Len(s) |-> Listed(s[i])]

\* metrics.stats.contributors of the enhanced script, the value returned by
\* getContributorMetrics in the basic one
ContributorsReport(s, sorted) ==
  [op |-> "report", total |-> Len(sorted),
   top |-> ListedAll(SliceFromStart(sorted, TopLength(s)))]

InitReport ==
  /\ script \in ReportScripts
  /\ \E n \in RegistrySizes :
       \E p, q \in 0..n, vp, vq \in RaisedContributions :
         contributorsMap = ReportRegistry(n, p, q, vp, vq)
  /\ coAuthorEmails = {}
  /\ repoIdx = 1
  /\ ops = 0
  /\ applied = 0
  /\ duplicates = <<>>
  /\ dupIdx = 1
  /\ mergedLogins = {}
  /\ pass = 1
  /\ preMap = <<>>
  /\ absorbedLog = <<>>
  /\ last = [op |-> "dedup_done"]
  /\ pc = "done"
  /\ coauthors = <<>>
  /\ uniqueCoauthors = <<>>
  /\ NoMessage
  /\ NoCandidate
  /\ NoOrder
  /\ NoRun
  /\ NoBudget
  /\ NoBatch

\* the registry is converted to the sorted array and reported
Report ==
  /\ pc = "done"
  /\ last' = ContributorsReport(script, allContributors(contributorsMap))
  /\ pc' = "reported"
  /\ UNCHANGED <<contributorsMap, coAuthorEmails, repoIdx, ops, applied, dedupVars,
                 extractVars, otherVars>>

NextReport == Report

SpecReport == InitReport /\ [][NextReport]_vars

(* ============================== properties ============================= *)
Live(m, logins) == {l \in Range(logins) : Has(m, l)}

RECURSIVE SumAliasContributions(_)
SumAliasContributions(aliases) ==
  IF aliases = <<>> THEN 0
  ELSE Head(aliases).contributions + SumAliasContributions(Tail(aliases))

AliasRepositories(aliases) == UNION {aliases[i].repositories : i \in 1..Len(aliases)}

\* C1: at every point of the run the contributions of the live records add up
\* to the sum of the deltas applied: each direct delta, 1 per commit author and
\* 1 per co-author candidate; the resolver update and the merges keep the sum.
ContributionsPreserved == SumContributions(contributorsMap) = applied

\* C1 witness: the pass has ended after absorbing a record, and the survivors
\* carry the contributions of direct, author or co-author upserts.
ContributionsPreservedWitness ==
  /\ pc = "done" /\ mergedLogins # {} /\ applied > 1
  /\ \E i \in 1..Len(contributorsMap) : contributorsMap[i].aliases # <<>>

\* C2: a merge-loop iteration on a match-set with two or more live members
\* leaves exactly one of them live; every other one is deleted and appended,
\* in order, to the survivor's aliases with its login, the match type and the
\* contributions it had just before the merge.
MergeLeavesOnePrimary ==
  [][ (/\ pc = "merge" /\ dupIdx <= Len(duplicates)
       /\ Cardinality(Live(contributorsMap, duplicates[dupIdx].logins)) >= 2)
      =>
      LET dup == duplicates[dupIdx]
          live == SelectSeq(dup.logins, LAMBDA l : Has(contributorsMap, l))
          after == Live(contributorsMap', dup.logins)
      IN /\ Cardinality(after) = 1
         /\ \A primary \in after :
              LET others == SelectSeq(live, LAMBDA l : l # primary)
                  old == Get(contributorsMap, primary).aliases
                  new == Get(contributorsMap', primary).aliases
              IN /\ Len(new) = Len(old) + Len(others)
                 /\ SubSeq(new, 1, Len(old)) = old
                 /\ \A i \in 1..Len(others) :
                      /\ new[Len(old) + i].login = others[i]
                      /\ new[Len(old) + i].type = dup.type
                      /\ new[Len(old) + i].contributions =
                           Get(contributorsMap, others[i]).contributions
    ]_vars

\* C2 witness: a match-set with two live members has just been merged.
MergeLeavesOnePrimaryWitness ==
  /\ last.op = "merge"
  /\ Cardinality(Live(last.before, last.logins)) >= 2
  /\ Cardinality(Live(contributorsMap, last.logins)) = 1

\* C3: once the pass runs, every live record's contributions are its own
\* contributions before the pass plus those recorded in its aliases, and its
\* repositories are its own before the pass plus those of the absorbed records.
SurvivorsSumAliases ==
  (pc \in {"merge", "done"} /\ pass = 1) =>
    \A i \in 1..Len(contributorsMap) :
      LET data == contributorsMap[i]
      IN /\ Has(preMap, data.key)
         /\ data.contributions =
              Get(preMap, data.key).contributions + SumAliasContributions(data.aliases)
         /\ data.repositories =
              Get(preMap, data.key).repositories \cup AliasRepositories(data.aliases)

\* C3 witness: the pass has ended and a survivor absorbed a record that brought
\* a repository the survivor did not have.
SurvivorsSumAliasesWitness ==
  /\ pc = "done" /\ pass = 1
  /\ \E i \in 1..Len(contributorsMap) :
       /\ contributorsMap[i].aliases # <<>>
       /\ contributorsMap[i].repositories #
            Get(preMap, contributorsMap[i].key).repositories

\* C4: the deduplication pass is idempotent: a second pass run right after the
\* first finds no match-set with two live members and leaves the registry as
\* it is.
DedupIdempotent ==
  [][ pass = 2 =>
        /\ contributorsMap' = contributorsMap
        /\ (pc' = "merge" =>
              \A i \in 1..Len(duplicates') :
                 Cardinality(Live(contributorsMap', duplicates'[i].logins)) < 2)
    ]_vars

EmailHit(m, email) ==
  \E i \in 1..Len(m) : m[i].email # <<>> /\ toLowerCase(m[i].email) = toLowerCase(email)

NoVerifiedPending ==
  \A i \in 1..Len(contributorsMap) :
     ~(contributorsMap[i].github_login # <<>> /\ contributorsMap[i].pending_github_lookup)

\* ten times the score as the claim lists it
ClaimedScore(data) ==
    data.contributions
  + (IF data.github_login # <<>> THEN 1000 ELSE 0)
  + (IF data.github_login # <<>> /\ toLowerCase(data.key) = toLowerCase(data.github_login)
       THEN 500 ELSE 0)
  + (IF data.avatar_url \in {"ghuc", "identicon"} THEN 300 ELSE 0)
  + (IF \A i \in 0..(Len(data.key) - Len(ContributorPrefix)) :
          SubSeq(data.key, i + 1, i + Len(ContributorPrefix)) # ContributorPrefix
       THEN 200 ELSE 0)
  + (IF \A i \in 1..Len(data.key) : data.key[i] # " " THEN 50 ELSE 0)

\* C7: the member of a merged match-set that stays live is the live member
\* with the highest score, and the first of them in the set on a tie.
PrimaryIsFirstHighest ==
  last.op = "merge" =>
    LET b == last.before
        live == SelectSeq(last.logins, LAMBDA l : Has(b, l))
    IN \E p \in 1..Len(live) :
         /\ Live(contributorsMap, last.logins) = {live[p]}
         /\ \A j \in 1..Len(live) :
              ClaimedScore(Get(b, live[j])) <= ClaimedScore(Get(b, live[p]))
         /\ \A j \in 1..(p - 1) :
              ClaimedScore(Get(b, live[j])) < ClaimedScore(Get(b, live[p]))

\* C7 witness: two live members tied for the highest score and the first one
\* of the match-set stayed.
PrimaryIsFirstHighestWitness ==
  /\ last.op = "merge"
  /\ LET b == last.before
         live == SelectSeq(last.logins, LAMBDA l : Has(b, l))
     IN /\ Len(live) >= 2
        /\ ClaimedScore(Get(b, live[1])) = ClaimedScore(Get(b, live[2]))
        /\ Live(contributorsMap, last.logins) = {live[1]}

\* C8: within a pass no login is absorbed twice, and no login absorbed
\* before is the primary of a later merge.
AbsorbedOnce ==
  \A i, j \in 1..Len(absorbedLog) :
     i < j => /\ absorbedLog[i].login # absorbedLog[j].login
              /\ absorbedLog[j].into # absorbedLog[i].login

\* C8 witness: the merge loop came to a match-set holding a login absorbed
\* before together with a live one, and passed over it.
AbsorbedOnceWitness ==
  /\ last.op = "skip"
  /\ \E l \in Range(last.logins) : \E i \in 1..Len(absorbedLog) : absorbedLog[i].login = l
  /\ \E l \in Range(last.logins) : Has(contributorsMap, l)

\* C9: no record is stored under an empty key, and a contributor or author
\* without a login leaves the registry as it was.
NoEmptyKey ==
  /\ \A i \in 1..Len(contributorsMap) : contributorsMap[i].key # <<>>
  /\ last.op \in {"direct_skipped", "author_skipped"} => contributorsMap = last.before

\* C9 witness: a candidate without a name, whose email has nothing before
\* the @, has been given a record.
NoEmptyKeyWitness ==
  /\ last.op = "coauthor"
  /\ last.name = <<>> /\ SplitFirst(last.email, "@") = <<>>
  /\ Len(contributorsMap) = Len(last.before) + 1
  /\ Len(contributorsMap[Len(contributorsMap)].key) > 0

\* positions of the candidates that are the first with their email
FirstOccurrences(raw) ==
  {i \in 1..Len(raw) :
     /\ raw[i].email # <<>>
     /\ \A j \in 1..(i - 1) : toLowerCase(raw[j].email) # toLowerCase(raw[i].email)}

\* C10: the list returned has no empty email and no two emails equal up to
\* case; it holds, in order, the first candidate of each distinct email.
UniqueByEmailInOrder ==
  pc = "extracted" =>
    LET first == FirstOccurrences(coauthors)
        Nth(k) == CHOOSE i \in first : Cardinality({j \in first : j < i}) = k - 1
    IN /\ \A i \in 1..Len(uniqueCoauthors) : uniqueCoauthors[i].email # <<>>
       /\ \A i, j \in 1..Len(uniqueCoauthors) :
            i # j => toLowerCase(uniqueCoauthors[i].email)
                       # toLowerCase(uniqueCoauthors[j].email)
       /\ Len(uniqueCoauthors) = Cardinality(first)
       /\ \A k \in 1..Len(uniqueCoauthors) : uniqueCoauthors[k] = coauthors[Nth(k)]

\* C10 witness: the filter dropped an empty email and a second spelling of an
\* email, and kept the first spelling.
UniqueByEmailInOrderWitness ==
  /\ pc = "extracted"
  /\ \E i \in 1..Len(coauthors) : coauthors[i].email = <<>>
  /\ \E i, j \in 1..Len(coauthors) :
       /\ i < j /\ coauthors[i].email # coauthors[j].email
       /\ toLowerCase(coauthors[i].email) = toLowerCase(coauthors[j].email)
       /\ uniqueCoauthors = <<coauthors[i]>>

TrailersOf(ps) == SelectSeq(ps, LAMBDA p : p.kind = "trailer")

LowerEmails(cands) == {toLowerCase(cands[i].email) : i \in 1..Len(cands)}

\* C11: for a commit message that holds N trailers `Co-Authored-By: Name
\* <email>`, each on a line of its own, the extractor returns exactly N
\* candidates, and their emails are, up to case, the emails of the trailers.
OneCandidatePerTrailer ==
  (pc = "extracted" /\ written.separator = <<"\n">>) =>
    LET trailers == TrailersOf(written.pieces)
    IN Len(trailers) >= 1 =>
         /\ Len(uniqueCoauthors) = Len(trailers)
         /\ LowerEmails(uniqueCoauthors) = LowerEmails(trailers)

\* C12: for a commit message that holds K markers with distinct emails on one
\* line, the extractor returns exactly K candidates, the i-th with the name
\* and the email of the i-th marker.
MarkersPairedInOrder ==
  (pc = "extracted" /\ written.separator = <<" ">>) =>
    LET ps == written.pieces
        markers == TrailersOf(ps)
    IN (/\ Len(markers) >= 1
        /\ \A i \in 1..Len(ps) : ps[i].kind \in {"trailer", "plain"}
        /\ \A i, j \in 1..Len(markers) :
              i # j => toLowerCase(markers[i].email) # toLowerCase(markers[j].email))
       => uniqueCoauthors =
            [i \in 1..Len(markers) |->
               [name |-> markers[i].name, email |-> markers[i].email]]

\* C13, as claimed: a commit message with no author marker and no email-shaped
\* text, the empty message included, gives the empty sequence.
NoMarkerNoEmailGivesNone ==
  pc = "extracted" =>
    ((\A i \in 1..Len(written.pieces) :
         written.pieces[i].kind \in {"plain", "mention", "short"})
     => uniqueCoauthors = <<>>)

\* C13, amended: a commit message with no author marker, no email-shaped text
\* and no @ followed by three or more letters, digits or hyphens, the empty
\* message included, gives the empty sequence.
NoMarkerNoEmailNoMentionGivesNone ==
  pc = "extracted" =>
    ((\A i \in 1..Len(written.pieces) : written.pieces[i].kind \in {"plain", "short"})
     => uniqueCoauthors = <<>>)

\* C13 witness: the workflow script has scanned a message of plain text and a
\* two-letter @ mention, and returned nothing.
NoMarkerNoEmailNoMentionGivesNoneWitness ==
  /\ pc = "extracted" /\ script = "workflow"
  /\ \A i \in 1..Len(written.pieces) : written.pieces[i].kind \in {"plain", "short"}
  /\ \E i \in 1..Len(written.pieces) : written.pieces[i].kind = "short"
  /\ \E i \in 1..Len(written.pieces) : written.pieces[i].kind = "plain"
  /\ last.op = "extract"
  /\ uniqueCoauthors = <<>>

\* C14: the normalizer returns a handle that is not empty whenever the email or
\* the name is not empty, returns null only when both are empty, and never
\* returns the empty string.
HandleNeverEmpty ==
  pc = "normalized" =>
    /\ returned # <<>>
    /\ (returned = Null) <=> (contact.email = <<>> /\ contact.name = <<>>)

\* C15: on the same upstream data, the run that takes the repositories in the
\* opposite order ends with the same number of live records and the same total
\* of contributions.
OrderInsensitive ==
  (pc = "done" /\ firstAggregate # <<>>) => Aggregate(contributorsMap) = firstAggregate

\* the entries of the history the run found: none when the file is absent or
\* holds no JSON
PriorEntries == LoadedHistory(priorFiles.history).value

\* the run ended with the exit code
Exited(code) == pc = "exited" /\ exitCode = <<code>>

\* C16: whenever the run exits non-zero, the snapshot file and the history file
\* have the contents the run found.
FailedRunLeavesFiles ==
  Exited(1) => (snapshotFile = priorFiles.snapshot /\ historyFile = priorFiles.history)

\* C17: a run that met no failure of its surroundings (the output directory
\* could be created, no phase threw, the history could be updated) has written
\* the snapshot of its aggregates, has the entry of the run last in the history
\* file, and exited with code 0.
CompletedRunSucceeds ==
  (pc = "exited" /\ failure = <<>>) =>
    /\ exitCode = <<0>>
    /\ snapshotFile = SnapshotOf(metrics)
    /\ historyFile = ArrayFile(Append(SubSeq(historyFile.value, 1, Len(historyFile.value) - 1),
                                      historicalEntry(metrics)))

\* the last n entries of h are the last n entries of p, in the same order
KeepsMostRecent(h, p, n) ==
  /\ n <= Len(p)
  /\ \A i \in 1..n : h[Len(h) - n + i] = p[Len(p) - n + i]

\* the history h is the history p with the entry appended last, cut to the
\* most recent HistoryLimit entries
AppendedAndBounded(h, p, entry) ==
  /\ Len(h) >= 1 /\ Len(h) <= HistoryLimit
  /\ h[Len(h)] = entry
  /\ Len(h) = (IF Len(p) + 1 > HistoryLimit THEN HistoryLimit ELSE Len(p) + 1)
  /\ KeepsMostRecent(SubSeq(h, 1, Len(h) - 1), p, Len(h) - 1)

\* C18: after every successful run the history file holds the history the run
\* found with the new entry appended last, cut to the most recent 100 entries:
\* at most 100 entries, the earlier ones in their order and with their values.
HistoryAppendedAndBounded ==
  Exited(0) =>
    /\ historyFile.kind = "json" /\ historyFile.array
    /\ AppendedAndBounded(historyFile.value, PriorEntries, historicalEntry(metrics))

\* a successful run on a history that was full: the oldest entry is dropped
HistoryAppendedAndBoundedWitness ==
  /\ Exited(0)
  /\ Len(PriorEntries) >= HistoryLimit
  /\ historyFile.value[1] # PriorEntries[1]

\* the requests of the log issued by one of the callers
IssuedBy(callers) ==
  {i \in 1..Len(requestLog) : requestLog[i].by \in callers}

\* C19: getAllItems requests no page while the tracked budget is at or below
\* the safety threshold; a call that has returned has returned the items of
\* every page it received, whatever the answers of the API were.
PagesWithinBudget ==
  /\ \A i \in IssuedBy({"getAllItems"}) : requestLog[i].budget > SafetyThreshold
  /\ fetches.call.state \in {"none", "loop", "returned"}
  /\ fetches.call.state = "returned" => fetches.call.result = fetches.call.received

\* a call that stopped on the budget: more pages to come, the page limit not
\* reached, no error, some pages received
PagesWithinBudgetWitness ==
  /\ fetches.call.state = "returned"
  /\ fetches.call.hasNextPage
  /\ fetches.call.page <= fetches.call.maxPages
  /\ ~fetches.call.error
  /\ fetches.call.result # <<>>
  /\ remainingRequests <= SafetyThreshold

\* the requests of the resolver
ResolverRequests == IssuedBy({"getByUsername", "search", "details"})

\* C20: once the tracked budget is exhausted during the resolver batch, the
\* resolver issues no further request: every request of the batch after its
\* first is issued on a budget that is not exhausted.
LookupsSkippedOnExhaustion ==
  \A i \in ResolverRequests :
    (\E j \in ResolverRequests : j < i) => requestLog[i].budget > 0

\* the records of m whose email the lookup found no user for
Missed(m, found) ==
  {i \in 1..Len(m) : m[i].email # <<>> /\ MapGet(found, toLowerCase(m[i].email)) = NoUser}

\* C21: after the resolver update the run is at the deduplication, and every
\* record storing an email the lookup failed on or found no user for is as it
\* was before the update, its pending flag still set.
MissLeavesRecord ==
  last.op = "resolve" =>
    /\ pc = "discover"
    /\ Len(contributorsMap) = Len(last.before)
    /\ \A i \in Missed(last.before, last.found) :
         /\ contributorsMap[i] = last.before[i]
         /\ contributorsMap[i].pending_github_lookup

\* the update ran on a registry with a record whose email was missed and a
\* record whose email was found
MissLeavesRecordWitness ==
  /\ last.op = "resolve"
  /\ Missed(last.before, last.found) # {}
  /\ \E i \in 1..Len(contributorsMap) : contributorsMap[i] # last.before[i]

\* the batch lookup has returned: every email of the batch had its lookup,
\* whatever the answers to the lookups before it were
EveryEmailLookedUp ==
  (pc = "discover" /\ lookups # <<>>) =>
    \A i \in 1..Len(lookups.emails) : \E j \in ResolverRequests : requestLog[j].email = i

\* the search requests issued for emails of the no-reply convention
NoReplySearches ==
  {j \in IssuedBy({"search"}) : lookups.emails[requestLog[j].email] = "noreply"}

\* C22 as stated: no search request is issued for an email of the no-reply
\* convention, whatever the answer to the profile fetch.
NoSearchForNoReply == NoReplySearches = {}

\* C22: for an email of the no-reply convention the first request is the
\* profile fetch, and a search request for it is issued only right after that
\* profile fetch failed.
SearchOnlyAfterFailedProfile ==
  /\ \A j \in ResolverRequests :
       (lookups.emails[requestLog[j].email] = "noreply"
          /\ (j = 1 \/ requestLog[j - 1].email # requestLog[j].email))
         => requestLog[j].by = "getByUsername"
  /\ \A j \in NoReplySearches :
       /\ j > 1
       /\ requestLog[j - 1].by = "getByUsername"
       /\ requestLog[j - 1].email = requestLog[j].email
  /\ (/\ lookups.i <= Len(lookups.emails)
      /\ lookups.request = "search"
      /\ lookups.emails[lookups.i] = "noreply")
       => (/\ last.op = "lookup_request" /\ last.request = "getByUsername"
           /\ last.email = lookups.i /\ ~last.ok)

\* a profile fetch was answered and the lookup went on to the next email; an
\* earlier no-reply email had its search after a failed profile fetch
SearchOnlyAfterFailedProfileWitness ==
  /\ NoReplySearches # {}
  /\ last.op = "lookup_request" /\ last.request = "getByUsername" /\ last.ok

\* the repository of the listing with the name
RepoNamed(name) == CHOOSE repo \in Range(allRepos) : repo.name = name

\* the entries of metrics.repositories for the repository
EntriesOf(name) ==
  {j \in 1..Len(collected.repositories) : collected.repositories[j].name = name}

\* the metrics of the entry that the repository could not fetch are zero
UnfetchedAreZero(entry, outcome) ==
  /\ outcome = "languages_fail" => entry.linesOfCode = 0
  /\ outcome = "contributors_fail" => entry.contributors = 0
  /\ outcome = "commits_fail" => entry.commits = 0
  /\ outcome = "count_fails" => entry.commits # LinkCount

\* C23: when the loop over the repositories has ended, every repository was
\* started, metrics.repositories has exactly one entry per repository, and the
\* metrics a repository could not fetch are zero in its entry.
EveryRepositoryListed ==
  (pc = "batched" /\ script # "basic") =>
    /\ Len(collected.repositories) = Len(allRepos)
    /\ \A i \in 1..Len(allRepos) :
         /\ Cardinality(EntriesOf(allRepos[i].name)) = 1
         /\ \E k \in 1..Len(processLog) :
              processLog[k] = [repo |-> allRepos[i].name, at |-> "start"]
    /\ \A j \in 1..Len(collected.repositories) :
         UnfetchedAreZero(collected.repositories[j],
                          RepoNamed(collected.repositories[j].name).outcome)

\* the loop has ended with a repository whose languages could not be fetched
\* and one whose lines of code were counted
EveryRepositoryListedWitness ==
  /\ pc = "batched" /\ script = "enhanced"
  /\ \E i \in 1..Len(allRepos) : allRepos[i].outcome = "languages_fail"
  /\ \E j \in 1..Len(collected.repositories) :
       collected.repositories[j].linesOfCode = RepoLines

\* C24: the processing of a repository outside the primary set has not
\* started unless the processing of every repository of the primary set has
\* ended.
PrimaryProcessedFirst ==
  script \in {"enhanced", "workflow"} =>
    \A i, j \in 1..Len(tasks) :
      (IsPrimary(tasks[i].repo) /\ ~IsPrimary(tasks[j].repo) /\ tasks[j].step >= 1)
        => tasks[i].step = Finished(script)

\* the processing of one repository, from the request it awaits to its end
RECURSIVE RunTask(_, _)
RunTask(s, w) ==
  IF w.task.step = Finished(s) THEN w
  ELSE RunTask(s, AfterFetch(s, w, Fetches(s)[w.task.step],
                             Answered(w.task.repo, Fetches(s)[w.task.step])))

\* the run that processes the repositories one after the other
RECURSIVE SequentialRun(_, _, _, _)
Continued(s, repos, w) == SequentialRun(s, repos, w.map, w.collected)
SequentialRun(s, repos, m, c) ==
  IF repos = <<>> THEN [map |-> m, collected |-> c]
  ELSE Continued(s, Tail(repos),
         RunTask(s, Work([NewTask(Head(repos)) EXCEPT !.step = 1, !.seen = Keys(m)], m, c)))

ContributionsByKey(m) == {<<m[i].key, m[i].contributions>> : i \in 1..Len(m)}

\* C26: when every batch has ended, the contributions of each key of the
\* registry and the totals are those of the run that processes the same
\* repositories, with the same answers, one after the other.
NoUpdateLost ==
  (pc = "batched" /\ script \in {"workflow", "basic"}) =>
    /\ ContributionsByKey(contributorsMap) =
         ContributionsByKey(SequentialRun(script, allReposInProcessOrder(script, allRepos),
                                          <<>>, NothingCollected).map)
    /\ collected.totalCommits =
         SequentialRun(script, allReposInProcessOrder(script, allRepos),
                       <<>>, NothingCollected).collected.totalCommits
    /\ collected.linesOfCode =
         SequentialRun(script, allReposInProcessOrder(script, allRepos),
                       <<>>, NothingCollected).collected.linesOfCode

\* an answer of one repository was processed between two answers of another
Interleaved == \E i \in 1..Len(tasks) : tasks[i].overlapped

\* the batches have ended after interleaved steps of two repositories that
\* both added to the same key
NoUpdateLostWitness ==
  /\ pc = "batched" /\ script = "basic"
  /\ Interleaved
  /\ \E i \in 1..Len(contributorsMap) : Cardinality(contributorsMap[i].repositories) >= 2

\* the logins of the records the list omits
Omitted(m, top) == {i \in 1..Len(m) : \A j \in 1..Len(top) : top[j].login # m[i].login}

\* C25: the reported list holds distinct records of the final registry in
\* descending order of contributions, it has N entries or all records if there
\* are fewer, no omitted record has more contributions than a listed one, and
\* the reported total is the number of records of the registry.
TopIsSortedAndTotalIsFull ==
  last.op = "report" =>
    /\ last.total = Len(contributorsMap)
    /\ Len(last.top) = IF Len(contributorsMap) < TopLength(script)
                         THEN Len(contributorsMap) ELSE TopLength(script)
    /\ \A i, j \in 1..Len(last.top) :
         i < j => /\ last.top[i].contributions >= last.top[j].contributions
                  /\ last.top[i].login # last.top[j].login
    /\ \A j \in 1..Len(last.top) :
         \E i \in 1..Len(contributorsMap) : Listed(contributorsMap[i]) = last.top[j]
    /\ \A i \in Omitted(contributorsMap, last.top) :
         \A j \in 1..Len(last.top) :
           contributorsMap[i].contributions <= last.top[j].contributions

\* a registry longer than the list, whose last record has the most
\* contributions, was reported
TopIsSortedAndTotalIsFullWitness ==
  /\ last.op = "report"
  /\ last.total > Len(last.top)
  /\ contributorsMap[Len(contributorsMap)].contributions = 3
  /\ last.top[1].login = contributorsMap[Len(contributorsMap)].login

\* the candidates of the result that carry the email of the bare marker
FromBareMarker ==
  {i \in 1..Len(uniqueCoauthors) : toLowerCase(uniqueCoauthors[i].email) = BareMarker.email}

PageRequests(f) == Len(f.received) + (IF f.error THEN 1 ELSE 0)

\* the call under way kept to the limit of pages, no page follows a short
\* page or a failed request, and the items returned are those of the pages
\* that arrived
CallBounded(f) ==
  /\ PageRequests(f) <= f.maxPages
  /\ \A i \in 1..Len(f.received) :
       ~f.received[i].full => (i = Len(f.received) /\ ~f.error)
  /\ f.error => (f.state = "returned" /\ f.hasNextPage)
  /\ f.state = "returned" => f.result = f.received

Looping == fetches.call.state = "loop"

\* C28: every call of the paginated fetch issues at most maxPages requests,
\* none after a short page or a failed request, returns the items of the
\* pages that arrived, and a call that is under way returns.
FetchBoundedAndReturns ==
  /\ [](Looping => CallBounded(fetches.call))
  /\ [](fetches.call.state = "returned" => CallBounded(fetches.call))
  /\ (Looping ~> fetches.call.state = "returned")

\* a call without maxPages has returned after the default number of full
\* pages, after an earlier call that issued one request
FetchBoundedAndReturnsWitness ==
  /\ fetches.call.state = "returned"
  /\ fetches.calls = 2
  /\ Len(requestLog) = DefaultMaxPages + 1
  /\ fetches.call.maxPages = DefaultMaxPages
  /\ Len(fetches.call.received) = DefaultMaxPages
  /\ fetches.call.received[DefaultMaxPages].full

\* the pairs of records that store the same email, whatever the case
SameEmail(m) ==
  {p \in (1..Len(m)) \X (1..Len(m)) :
     /\ p[1] < p[2]
     /\ m[p[1]].email # <<>> /\ m[p[2]].email # <<>>
     /\ toLowerCase(m[p[1]].email) = toLowerCase(m[p[2]].email)}

\* the match-sets the discovery found on the shared-email criterion
EmailDuplicateSets == {k \in 1..Len(duplicates) : duplicates[k].type = "email"}

\* C29: while the registry is populated and after the resolver update no two
\* records store the same email, whatever the case, and the discovery finds no
\* match-set on the shared-email criterion.
NoTwoRecordsShareEmail ==
  /\ pc \in {"contributors", "commits", "lookup", "discover"} =>
       SameEmail(contributorsMap) = {}
  /\ pc = "merge" => EmailDuplicateSets = {}

\* a co-author candidate whose email differs only in case from a stored email
\* was merged into the record that stores it
NoTwoRecordsShareEmailWitness ==
  /\ last.op = "coauthor"
  /\ Len(contributorsMap) = Len(last.before)
  /\ \E i \in 1..Len(contributorsMap) :
       /\ contributorsMap[i].email # <<>>
       /\ contributorsMap[i].email # last.email
       /\ toLowerCase(contributorsMap[i].email) = toLowerCase(last.email)
       /\ contributorsMap[i].contributions = last.before[i].contributions + 1

\* the alias entries of the surviving records that name the login
AliasEntriesOf(m, login) ==
  {p \in (1..Len(m)) \X (1..MaxOps) :
     p[2] <= Len(m[p[1]].aliases) /\ m[p[1]].aliases[p[2]].login = login}

\* the alias entries of all surviving records
AliasEntries(m) == {p \in (1..Len(m)) \X (1..MaxOps) : p[2] <= Len(m[p[1]].aliases)}

\* C30: after the deduplication pass every login the pass removed is in the
\* aliases of exactly one surviving record, and the alias entries of the
\* surviving records are as many as the merged logins.
AliasesNameTheMerged ==
  pc = "done" =>
    /\ \A login \in mergedLogins :
         Cardinality(AliasEntriesOf(contributorsMap, login)) = 1
    /\ Cardinality(AliasEntries(contributorsMap)) = Cardinality(mergedLogins)

TypeOK == pc \in {"contributors", "commits", "lookup", "discover", "merge", "done",
                  "scan", "extract", "extracted", "normalize", "normalized", "populate",
                  "setup", "collect", "statistics", "save", "history", "exited", "fetch",
                  "batch", "batched", "reported"}
====
